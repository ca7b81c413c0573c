--------------------------- MODULE TxSenderProofs ---------------------------
(***************************************************************************)
(* Proofs about TxSender and TxBuilder, which share the lemmas on sums.    *)
(*                                                                         *)
(* TxSender: what a call prepared before it reckons the change (Inv), and  *)
(* that a transaction it builds is balanced, pays what its metadata says   *)
(* and leaves no output below its minimum of ada, when the sums of the     *)
(* instance fit a word (SumsFit).                                          *)
(*                                                                         *)
(* TxBuilder: what an operation returns is made of this call's fields and  *)
(* arguments, the fee pays for the witnesses that policy scripts of any    *)
(* shape need, and a call touches at most one output.                      *)
(*                                                                         *)
(* Sums are folds of the library over finite sets: that they do not depend *)
(* on the order of adding is proved by induction over the subsets of a     *)
(* set, which the theorem on least natural numbers gives.  What is said of *)
(* every policy script is proved by induction over how deep it nests.      *)
(***************************************************************************)
EXTENDS TxSender, TxBuilder, SequenceTheorems, FiniteSetTheorems, WellFoundedInduction, TLAPS

-----------------------------------------------------------------------------
(* Sums over finite sets *)

\* A set of naturals that is not empty has a least element.
LEMMA LeastNatural ==
  ASSUME NEW T \in SUBSET Nat, T # {}
  PROVE  \E x \in T : \A y \in T : x <= y
<1>1. PICK x \in T : \A y \in T : ~(<<y, x>> \in OpToRel(<, Nat))
  BY WFMin, NatLessThanWellFounded
<1>2. ASSUME NEW y \in T PROVE x <= y
  <2>1. ~(y < x)
    BY <1>1 DEF OpToRel
  <2> QED
    BY <2>1
<1> QED
  BY <1>2

\* Induction over the subsets of a finite set: a family holds all of them when
\* it holds the empty one, and any other when it holds what is left of it
\* without one member.
LEMMA SubsetInduction ==
  ASSUME NEW S, IsFiniteSet(S), NEW D, {} \in D,
         \A T \in SUBSET S : T # {} /\ (\A x \in T : T \ {x} \in D) => T \in D
  PROVE  SUBSET S \subseteq D
<1> SUFFICES ASSUME NEW Z \in SUBSET S, Z \notin D PROVE FALSE
  OBVIOUS
<1> DEFINE N == {Cardinality(T) : T \in (SUBSET S) \ D}
<1>1. \A T \in SUBSET S : IsFiniteSet(T) /\ Cardinality(T) \in Nat
  BY FS_Subset, FS_CardinalityType
<1>2. N \in SUBSET Nat /\ N # {}
  BY <1>1
<1>3. PICK n \in N : \A m \in N : n <= m
  BY <1>2, LeastNatural
<1>4. PICK T \in (SUBSET S) \ D : n = Cardinality(T)
  BY <1>3
<1>5. PICK x \in T : T \ {x} \notin D
  BY <1>4
<1>6. Cardinality(T \ {x}) = Cardinality(T) - 1
  BY <1>1, <1>4, <1>5, FS_RemoveElement
<1>7. Cardinality(T \ {x}) \in N /\ Cardinality(T) \in Nat
  BY <1>1, <1>4, <1>5
<1> HIDE DEF N
<1>8. Cardinality(T) <= Cardinality(T) - 1
  BY <1>3, <1>4, <1>6, <1>7
<1> QED
  BY <1>7, <1>8

-----------------------------------------------------------------------------

Pick(s) == CHOOSE x \in s : TRUE

\* g adds up f over the subsets of S, as the fold of the library does.
Adds(f, S, g) ==
  g = [s \in SUBSET S |-> IF s = {} THEN 0 ELSE f[Pick(s)] + g[s \ {Pick(s)}]]

\* The library's sum is that of such a function.
LEMMA SumIsFold ==
  ASSUME NEW f, NEW S
  PROVE  SumFunctionOnSet(f, S) = (CHOOSE g : Adds(f, S, g))[S]
  BY DEF SumFunctionOnSet, FoldFunctionOnSet, MapThenFoldSet, Adds, Pick

\* There is one when S is finite.
LEMMA AddsExists ==
  ASSUME NEW f, NEW S, IsFiniteSet(S)
  PROVE  \E g : Adds(f, S, g)
<1> DEFINE Upto(n) == {s \in SUBSET S : Cardinality(s) <= n}
           AddsUpto(g, n) == g = [s \in Upto(n) |-> IF s = {} THEN 0 ELSE f[Pick(s)] + g[s \ {Pick(s)}]]
           N == {n \in Nat : ~\E g : AddsUpto(g, n)}
<1>1. \A s \in SUBSET S : IsFiniteSet(s) /\ Cardinality(s) \in Nat /\ Cardinality(s) <= Cardinality(S)
  BY FS_Subset, FS_CardinalityType
<1>2. \A s \in SUBSET S : s # {} => /\ Pick(s) \in s
                                    /\ Cardinality(s \ {Pick(s)}) = Cardinality(s) - 1
                                    /\ s \ {Pick(s)} \in SUBSET S
  BY <1>1, FS_RemoveElement DEF Pick
<1>3. \A s \in SUBSET S : Cardinality(s) = 0 <=> s = {}
  BY <1>1, FS_EmptySet
<1>4. 0 \notin N
  <2>1. AddsUpto([s \in Upto(0) |-> 0], 0)
    BY <1>1, <1>3
  <2> QED
    BY <2>1
<1>5. ASSUME NEW n \in Nat, NEW g, AddsUpto(g, n) PROVE n + 1 \notin N
  <2> DEFINE h == [s \in Upto(n + 1) |-> IF s = {} THEN 0 ELSE f[Pick(s)] + g[s \ {Pick(s)}]]
  <2>1. ASSUME NEW s \in Upto(n + 1), s # {} PROVE h[s \ {Pick(s)}] = g[s \ {Pick(s)}]
    <3> DEFINE r == s \ {Pick(s)}
    <3>1. r \in Upto(n) /\ r \in Upto(n + 1)
      BY <1>1, <1>2, <2>1
    <3>2. g[r] = IF r = {} THEN 0 ELSE f[Pick(r)] + g[r \ {Pick(r)}]
      BY <1>5, <3>1
    <3>3. h[r] = IF r = {} THEN 0 ELSE f[Pick(r)] + g[r \ {Pick(r)}]
      BY <3>1
    <3> QED
      BY <3>2, <3>3
  <2>2. AddsUpto(h, n + 1)
    BY <2>1
  <2> HIDE DEF AddsUpto, h
  <2> QED
    BY <2>2
<1>6. N = {}
  <2> SUFFICES ASSUME N # {} PROVE FALSE
    OBVIOUS
  <2>1. PICK n \in N : \A m \in N : n <= m
    BY LeastNatural
  <2> HIDE DEF AddsUpto
  <2>2. n # 0 /\ n - 1 \in Nat /\ (n - 1) + 1 = n
    BY <1>4
  <2>3. n - 1 \notin N
    BY <2>1, <2>2
  <2> QED
    BY <1>5, <2>1, <2>2, <2>3
<1>7. PICK g : AddsUpto(g, Cardinality(S))
  <2>1. Cardinality(S) \in Nat
    BY FS_CardinalityType
  <2> HIDE DEF AddsUpto
  <2> QED
    BY <1>6, <2>1
<1>8. Upto(Cardinality(S)) = SUBSET S
  BY <1>1
<1>9. Adds(f, S, g)
  BY <1>7, <1>8 DEF Adds
<1> QED
  BY <1>9

\* A sum over a finite set, with the member that the fold takes first.
LEMMA SumPicked ==
  ASSUME NEW f, NEW S, IsFiniteSet(S)
  PROVE  /\ S = {} => SumFunctionOnSet(f, S) = 0
         /\ S # {} => SumFunctionOnSet(f, S) = f[Pick(S)] + SumFunctionOnSet(f, S \ {Pick(S)})
<1> DEFINE Fold(T) == CHOOSE g : Adds(f, T, g)
<1>1. \A T \in SUBSET S : IsFiniteSet(T)
  BY FS_Subset
<1>2. \A T \in SUBSET S : Adds(f, T, Fold(T))
  BY <1>1, AddsExists
<1> HIDE DEF Fold
<1>3. \A T \in SUBSET S : \A s \in SUBSET T :
        Fold(T)[s] = IF s = {} THEN 0 ELSE f[Pick(s)] + Fold(T)[s \ {Pick(s)}]
  BY <1>2 DEF Adds
<1>4. ASSUME NEW T \in SUBSET S PROVE Fold(S)[T] = Fold(T)[T]
  <2> DEFINE D == {s \in SUBSET T : Fold(S)[s] = Fold(T)[s]}
  <2>1. {} \in D
    BY <1>3
  <2>2. ASSUME NEW s \in SUBSET T, s # {}, \A x \in s : s \ {x} \in D PROVE s \in D
    <3>1. Pick(s) \in s
      BY <2>2 DEF Pick
    <3>2. Fold(S)[s \ {Pick(s)}] = Fold(T)[s \ {Pick(s)}]
      BY <2>2, <3>1
    <3> QED
      BY <1>3, <2>2, <3>2
  <2>3. SUBSET T \subseteq D
    <3> HIDE DEF D
    <3> QED
      BY <1>1, <2>1, <2>2, SubsetInduction
  <2> QED
    BY <2>3
<1>5. \A T \in SUBSET S : SumFunctionOnSet(f, T) = Fold(S)[T]
  BY <1>4, SumIsFold DEF Fold
<1>6. S # {} => S \ {Pick(S)} \in SUBSET S
  OBVIOUS
<1> QED
  BY <1>3, <1>5, <1>6

\* A sum of integers over a finite set, with any of its members taken first.
LEMMA SumOfInts ==
  ASSUME NEW S, IsFiniteSet(S), NEW f, \A x \in S : f[x] \in Int
  PROVE  /\ SumFunctionOnSet(f, S) \in Int
         /\ \A x \in S : SumFunctionOnSet(f, S) = f[x] + SumFunctionOnSet(f, S \ {x})
<1> DEFINE Sum(T) == SumFunctionOnSet(f, T)
           D == {T \in SUBSET S :
                   /\ Sum(T) \in Int
                   /\ \A x \in T : Sum(T \ {x}) \in Int /\ Sum(T) = f[x] + Sum(T \ {x})}
<1>1. \A T \in SUBSET S : IsFiniteSet(T)
  BY FS_Subset
<1>2. \A T \in SUBSET S : /\ T = {} => Sum(T) = 0
                          /\ T # {} => Sum(T) = f[Pick(T)] + Sum(T \ {Pick(T)})
  BY <1>1, SumPicked
<1> HIDE DEF Sum
<1>3. {} \in D
  BY <1>2
<1>4. ASSUME NEW T \in SUBSET S, T # {}, \A x \in T : T \ {x} \in D PROVE T \in D
  <2> DEFINE c == Pick(T)
  <2>1. c \in T
    BY <1>4 DEF Pick
  <2> HIDE DEF c
  <2>2. Sum(T) = f[c] + Sum(T \ {c}) /\ Sum(T \ {c}) \in Int /\ f[c] \in Int
    BY <1>2, <1>4, <2>1 DEF c
  <2>3. ASSUME NEW x \in T PROVE Sum(T \ {x}) \in Int /\ Sum(T) = f[x] + Sum(T \ {x})
    <3>1. CASE x = c
      BY <2>2, <3>1
    <3>2. CASE x # c
      <4>1. Sum(T \ {x}) \in Int
        BY <1>4
      <4>2. Sum(T \ {c}) = f[x] + Sum((T \ {c}) \ {x})
        BY <1>4, <2>1, <3>2
      <4>3. Sum(T \ {x}) = f[c] + Sum((T \ {x}) \ {c})
        BY <1>4, <2>1, <3>2
      <4>4. (T \ {c}) \ {x} = (T \ {x}) \ {c}
        OBVIOUS
      <4>5. Sum((T \ {c}) \ {x}) \in Int /\ f[x] \in Int
        BY <1>4, <2>1, <3>2
      <4>6. Sum((T \ {x}) \ {c}) = Sum((T \ {c}) \ {x})
        BY <4>4
      <4> HIDE DEF D
      <4> QED
        BY <2>2, <4>1, <4>2, <4>3, <4>5, <4>6
    <3> QED
      BY <3>1, <3>2
  <2>4. Sum(T) \in Int
    BY <2>2
  <2> QED
    BY <2>3, <2>4
<1>5. SUBSET S \subseteq D
  <2> HIDE DEF D
  <2> QED
    BY <1>3, <1>4, SubsetInduction
<1> QED
  BY <1>5 DEF Sum

\* A sum of naturals, and that of some of them.
LEMMA SumOfNats ==
  ASSUME NEW S, IsFiniteSet(S), NEW f, \A x \in S : f[x] \in Nat
  PROVE  \A T \in SUBSET S :
           SumFunctionOnSet(f, T) \in Nat /\ SumFunctionOnSet(f, T) <= SumFunctionOnSet(f, S)
<1> DEFINE Sum(T) == SumFunctionOnSet(f, T)
<1>1. \A T \in SUBSET S : Sum(T) \in Int /\ \A x \in T : Sum(T) = f[x] + Sum(T \ {x})
  <2> SUFFICES ASSUME NEW T \in SUBSET S
               PROVE  Sum(T) \in Int /\ \A x \in T : Sum(T) = f[x] + Sum(T \ {x})
    OBVIOUS
  <2>1. IsFiniteSet(T) /\ \A x \in T : f[x] \in Int
    BY FS_Subset
  <2> QED
    BY <2>1, SumOfInts
<1>2. Sum({}) = 0
  BY SumPicked, FS_EmptySet
<1> HIDE DEF Sum
<1>3. SUBSET S \subseteq {T \in SUBSET S : Sum(T) \in Nat}
  <2> DEFINE D == {T \in SUBSET S : Sum(T) \in Nat}
  <2>1. {} \in D
    BY <1>2
  <2>2. ASSUME NEW T \in SUBSET S, T # {}, \A x \in T : T \ {x} \in D PROVE T \in D
    <3>1. PICK x \in T : TRUE
      BY <2>2
    <3>2. Sum(T) = f[x] + Sum(T \ {x}) /\ Sum(T \ {x}) \in Nat /\ f[x] \in Nat
      BY <1>1, <2>2
    <3> QED
      BY <3>2
  <2> HIDE DEF D
  <2>3. SUBSET S \subseteq D
    BY <2>1, <2>2, SubsetInduction
  <2> QED
    BY <2>3 DEF D
<1>4. ASSUME NEW T \in SUBSET S PROVE Sum(T) <= Sum(S)
  <2> DEFINE D == {U \in SUBSET S : Sum(U \cap T) <= Sum(U)}
  <2>1. {} \in D
    BY <1>2
  <2>2. ASSUME NEW U \in SUBSET S, U # {}, \A x \in U : U \ {x} \in D PROVE U \in D
    <3>1. PICK x \in U : TRUE
      BY <2>2
    <3> DEFINE R == U \ {x}
    <3>2. Sum(R \cap T) <= Sum(R)
      BY <2>2
    <3>3. /\ Sum(U) = f[x] + Sum(R) /\ f[x] \in Nat
          /\ Sum(R) \in Nat /\ Sum(R \cap T) \in Nat /\ Sum(U \cap T) \in Nat
      BY <1>1, <1>3
    <3>4. CASE x \in T
      <4>1. (U \cap T) \ {x} = R \cap T /\ x \in U \cap T /\ U \cap T \in SUBSET S
        BY <3>4
      <4>2. Sum(U \cap T) = f[x] + Sum(R \cap T)
        BY <1>1, <4>1
      <4> QED
        BY <3>2, <3>3, <4>2
    <3>5. CASE x \notin T
      <4>1. U \cap T = R \cap T
        BY <3>5
      <4> QED
        BY <3>2, <3>3, <4>1
    <3> QED
      BY <3>4, <3>5
  <2> HIDE DEF D
  <2>3. SUBSET S \subseteq D
    BY <2>1, <2>2, SubsetInduction
  <2>4. S \cap T = T
    OBVIOUS
  <2> QED
    BY <2>3, <2>4 DEF D
<1> QED
  BY <1>3, <1>4 DEF Sum

\* The sum depends on the values at the members only.
LEMMA SumSame ==
  ASSUME NEW S, IsFiniteSet(S), NEW f, NEW g, \A x \in S : f[x] = g[x]
  PROVE  SumFunctionOnSet(f, S) = SumFunctionOnSet(g, S)
<1> DEFINE D == {T \in SUBSET S : SumFunctionOnSet(f, T) = SumFunctionOnSet(g, T)}
<1>1. {} \in D
  BY SumPicked, FS_EmptySet
<1>2. ASSUME NEW T \in SUBSET S, T # {}, \A x \in T : T \ {x} \in D PROVE T \in D
  <2>1. IsFiniteSet(T) /\ Pick(T) \in T
    BY <1>2, FS_Subset DEF Pick
  <2>2. /\ SumFunctionOnSet(f, T) = f[Pick(T)] + SumFunctionOnSet(f, T \ {Pick(T)})
        /\ SumFunctionOnSet(g, T) = g[Pick(T)] + SumFunctionOnSet(g, T \ {Pick(T)})
    BY <1>2, <2>1, SumPicked
  <2>3. SumFunctionOnSet(f, T \ {Pick(T)}) = SumFunctionOnSet(g, T \ {Pick(T)})
    BY <1>2, <2>1
  <2> QED
    BY <2>1, <2>2, <2>3
<1> HIDE DEF D
<1>3. SUBSET S \subseteq D
  BY <1>1, <1>2, SubsetInduction
<1> QED
  BY <1>3 DEF D

\* A sum may be taken over the places from which another list takes its values.
LEMMA SumMoved ==
  ASSUME NEW S, IsFiniteSet(S), NEW R, IsFiniteSet(R),
         NEW m \in [S -> R], \A x, y \in S : m[x] = m[y] => x = y,
         NEW f, \A r \in R : f[r] \in Int
  PROVE  \A T \in SUBSET S :
           SumFunctionOnSet([x \in S |-> f[m[x]]], T) = SumFunctionOnSet(f, {m[x] : x \in T})
<1> DEFINE h == [x \in S |-> f[m[x]]]
           At(T) == {m[x] : x \in T}
           D == {T \in SUBSET S : SumFunctionOnSet(h, T) = SumFunctionOnSet(f, At(T))}
<1>1. {} \in D
  <2>1. At({}) = {}
    OBVIOUS
  <2> QED
    BY <2>1, SumPicked, FS_EmptySet
<1>2. ASSUME NEW T \in SUBSET S, T # {}, \A x \in T : T \ {x} \in D PROVE T \in D
  <2>1. PICK x \in T : TRUE
    BY <1>2
  <2>2. IsFiniteSet(T) /\ \A y \in T : h[y] \in Int
    BY FS_Subset
  <2>3. SumFunctionOnSet(h, T) = h[x] + SumFunctionOnSet(h, T \ {x})
    <3> HIDE DEF h
    <3> QED
      BY <2>2, SumOfInts
  <2>4. IsFiniteSet(At(T)) /\ m[x] \in At(T) /\ \A r \in At(T) : f[r] \in Int
    <3>1. At(T) \in SUBSET R
      OBVIOUS
    <3> QED
      BY <3>1, FS_Subset
  <2>5. SumFunctionOnSet(f, At(T)) = f[m[x]] + SumFunctionOnSet(f, At(T) \ {m[x]})
    <3> HIDE DEF At
    <3> QED
      BY <2>4, SumOfInts
  <2>6. At(T) \ {m[x]} = At(T \ {x})
    OBVIOUS
  <2>7. SumFunctionOnSet(h, T \ {x}) = SumFunctionOnSet(f, At(T \ {x}))
    BY <1>2
  <2>8. h[x] = f[m[x]]
    OBVIOUS
  <2> HIDE DEF h, At
  <2> QED
    BY <2>3, <2>5, <2>6, <2>7, <2>8
<1> HIDE DEF D
<1>3. SUBSET S \subseteq D
  BY <1>1, <1>2, SubsetInduction
<1> QED
  BY <1>3 DEF D

-----------------------------------------------------------------------------
(* The constants, words and maxima *)

\* What the assumption on the constants gives the other proofs.
LEMMA Constants ==
  /\ Ada \in Token /\ IsFiniteSet(Token)
  /\ Word \in Nat /\ Word > 0
  /\ MinUtxoValue \in Nat /\ MinBridgingFeeAmount \in Nat /\ PotentialFee \in Nat
  /\ BaseMinUtxo \in Nat /\ TokenMinUtxo \in Nat /\ BaseMinUtxo > 0
  /\ \A fee \in Fees : fee \in Nat /\ fee < Word
  /\ \A c \in Calls : c.receivers \in Seq(Value) /\ c.bridgingFee \in Nat /\ c.bridgingFee < Word
  /\ \A w \in Wallets : w \in Seq(Value)
  BY TxSenderAssumption DEF Amount

\* A number that fits a word is itself.
LEMMA ModSmall == ASSUME NEW x \in Nat, x < Word PROVE x % Word = x
  BY Constants

\* A number below zero wraps around.
LEMMA ModWrap == ASSUME NEW x \in Int, -Word <= x, x < 0 PROVE x % Word = x + Word
  BY Constants

\* What the code keeps of a number is a word.
LEMMA ModType == ASSUME NEW x \in Int PROVE x % Word \in Nat /\ x % Word < Word
  BY Constants

\* The larger of two numbers.
LEMMA MaxOfTwo ==
  ASSUME NEW a \in Int, NEW d \in Int
  PROVE  Max({a, d}) \in {a, d} /\ Max({a, d}) >= a /\ Max({a, d}) >= d
  BY DEF Max

\* The largest of three numbers.
LEMMA MaxOfThree ==
  ASSUME NEW a \in Int, NEW d \in Int, NEW c \in Int
  PROVE  /\ Max({a, d} \cup {c}) \in {a, d, c}
         /\ Max({a, d} \cup {c}) >= a /\ Max({a, d} \cup {c}) >= d /\ Max({a, d} \cup {c}) >= c
<1> DEFINE S == {a, d} \cup {c}
<1>1. \E x \in S : \A y \in S : x >= y
  OBVIOUS
<1>2. Max(S) \in S /\ \A y \in S : Max(S) >= y
  BY <1>1 DEF Max
<1> QED
  BY <1>2

\* Multiplying keeps the order.
LEMMA TimesGrows ==
  ASSUME NEW a \in Nat, NEW d \in Nat, NEW c \in Nat, a <= d
  PROVE  c * a \in Nat /\ c * a <= c * d
  OBVIOUS

-----------------------------------------------------------------------------
(* Totals *)

\* A list of values, by what each holds of one token.
Column(list, t) == [k \in DOMAIN list |-> list[k][t]]

\* The library's sum of what an operator gives, as a sum of values of a function.
LEMMA TotalIsSum ==
  ASSUME NEW list, NEW t, NEW S \in SUBSET DOMAIN list
  PROVE  MapThenSumSet(LAMBDA k : list[k][t], S) = SumFunctionOnSet(Column(list, t), S)
<1> DEFINE P(g) == g = [s \in SUBSET S |-> IF s = {} THEN 0 ELSE list[Pick(s)][t] + g[s \ {Pick(s)}]]
           Q(g) == Adds(Column(list, t), S, g)
<1>1. MapThenSumSet(LAMBDA k : list[k][t], S) = (CHOOSE g : P(g))[S]
  BY DEF MapThenSumSet, MapThenFoldSet, Pick
<1>2. SumFunctionOnSet(Column(list, t), S) = (CHOOSE g : Q(g))[S]
  BY SumIsFold
<1>3. \A s \in SUBSET S : s # {} => Column(list, t)[Pick(s)] = list[Pick(s)][t]
  BY DEF Column, Pick
<1>4. \A g : P(g) <=> Q(g)
  BY <1>3 DEF Adds
<1> HIDE DEF P, Q
<1>5. (CHOOSE g : P(g)) = (CHOOSE g : Q(g))
  BY <1>4
<1> QED
  BY <1>1, <1>2, <1>5

\* The same for what the inputs of a selection hold.
LEMMA HoldsIsSum ==
  ASSUME NEW S \in SUBSET DOMAIN selection.amount, NEW t
  PROVE  Sel!Holds(S, t) = SumFunctionOnSet(Column(selection.amount, t), S)
<1> DEFINE list == selection.amount
<1>1. Sel!Holds(S, t) = MapThenSumSet(LAMBDA k : list[k][t], S)
  BY DEF Sel!Holds, Sel!MapThenSumSet, Sel!MapThenFoldSet, MapThenSumSet, MapThenFoldSet
<1>2. S \in SUBSET DOMAIN list
  OBVIOUS
<1> HIDE DEF list
<1>3. MapThenSumSet(LAMBDA k : list[k][t], S) = SumFunctionOnSet(Column(list, t), S)
  BY <1>2, TotalIsSum
<1> QED
  BY <1>1, <1>3 DEF list

\* Values whose amounts need not fit a word.
NatValue == [Token -> Nat]

\* A total is a natural number.
LEMMA TotalType ==
  ASSUME NEW list \in Seq(NatValue), NEW t \in Token
  PROVE  /\ Total(list, t) = SumFunctionOnSet(Column(list, t), DOMAIN list)
         /\ Total(list, t) \in Nat
         /\ IsFiniteSet(DOMAIN list)
         /\ \A k \in DOMAIN list : Column(list, t)[k] = list[k][t] /\ list[k][t] \in Nat
<1>1. IsFiniteSet(DOMAIN list)
  <2>1. DOMAIN list = 1..Len(list) /\ Len(list) \in Int /\ 1 \in Int
    OBVIOUS
  <2> QED
    BY <2>1, FS_Interval
<1>2. \A k \in DOMAIN list : Column(list, t)[k] = list[k][t] /\ list[k][t] \in Nat
  BY DEF Column, NatValue
<1>3. Total(list, t) = SumFunctionOnSet(Column(list, t), DOMAIN list)
  BY TotalIsSum DEF Total
<1>4. SumFunctionOnSet(Column(list, t), DOMAIN list) \in Nat
  BY <1>1, <1>2, SumOfNats
<1> QED
  BY <1>1, <1>2, <1>3, <1>4

\* One value more adds what it holds.
LEMMA TotalAppend ==
  ASSUME NEW list \in Seq(NatValue), NEW v \in NatValue, NEW t \in Token
  PROVE  Total(Append(list, v), t) = Total(list, t) + v[t]
<1> DEFINE more == Append(list, v)
           n == Len(list)
<1>1. /\ more \in Seq(NatValue) /\ n \in Nat
      /\ DOMAIN more = 1..(n + 1) /\ DOMAIN list = 1..n
      /\ more[n + 1] = v /\ \A k \in 1..n : more[k] = list[k]
  OBVIOUS
<1> DEFINE f == Column(more, t)
           g == Column(list, t)
           P == 1..(n + 1)
           L == 1..n
<1>2. /\ Total(more, t) = SumFunctionOnSet(f, P)
      /\ IsFiniteSet(P)
      /\ \A k \in P : f[k] = more[k][t] /\ f[k] \in Int
  <2> HIDE DEF more
  <2>1. DOMAIN more = P
    BY <1>1
  <2>2. /\ Total(more, t) = SumFunctionOnSet(f, DOMAIN more)
        /\ IsFiniteSet(DOMAIN more)
        /\ \A k \in DOMAIN more : f[k] = more[k][t] /\ f[k] \in Nat
    BY <1>1, TotalType
  <2> HIDE DEF f
  <2> QED
    BY <2>1, <2>2
<1>3. /\ Total(list, t) = SumFunctionOnSet(g, L)
      /\ IsFiniteSet(L)
      /\ \A k \in L : g[k] = list[k][t]
  BY <1>1, TotalType
<1>4. n + 1 \in P /\ P \ {n + 1} = L /\ \A k \in L : k \in P
  BY <1>1
<1>5. f[n + 1] = v[t] /\ \A k \in L : f[k] = g[k]
  BY <1>1, <1>2, <1>3, <1>4
<1> HIDE DEF f, g, P, L
<1>6. SumFunctionOnSet(f, P) = f[n + 1] + SumFunctionOnSet(f, P \ {n + 1})
  BY <1>2, <1>4, SumOfInts
<1>7. SumFunctionOnSet(f, L) = SumFunctionOnSet(g, L)
  BY <1>3, <1>5, SumSame
<1>8. Total(list, t) \in Nat /\ v[t] \in Nat
  BY TotalType DEF NatValue
<1>9. Total(more, t) = v[t] + Total(list, t)
  BY <1>2, <1>3, <1>4, <1>5, <1>6, <1>7
<1> HIDE DEF more
<1>10. Total(more, t) = Total(list, t) + v[t]
  BY <1>8, <1>9
<1> QED
  BY <1>10 DEF more

\* The total of a single value.
LEMMA TotalOne ==
  ASSUME NEW v \in NatValue, NEW t \in Token PROVE Total(<<v>>, t) = v[t]
<1>1. << >> \in Seq(NatValue) /\ Append(<< >>, v) = <<v>>
  OBVIOUS
<1>2. Total(<< >>, t) = 0
  <2>1. DOMAIN << >> = {}
    OBVIOUS
  <2>2. Total(<< >>, t) = SumFunctionOnSet(Column(<< >>, t), {})
    BY <1>1, <2>1, TotalType
  <2> QED
    BY <2>2, SumPicked, FS_EmptySet
<1>3. v[t] \in Nat
  BY DEF NatValue
<1>4. Total(Append(<< >>, v), t) = Total(<< >>, t) + v[t]
  BY <1>1, TotalAppend
<1> QED
  BY <1>1, <1>2, <1>3, <1>4

\* Lists that hold the same of a token at each place hold the same in all.
LEMMA TotalSame ==
  ASSUME NEW a \in Seq(NatValue), NEW d \in Seq(NatValue), NEW t \in Token,
         DOMAIN a = DOMAIN d, \A k \in DOMAIN a : a[k][t] = d[k][t]
  PROVE  Total(a, t) = Total(d, t)
  BY TotalType, SumSame

\* Outputs that a transformer kept hold no more than the wallet.
LEMMA KeptHolds ==
  ASSUME NEW w \in Seq(NatValue), NEW kept \in Kept(w),
         selection.amount = TransformUtxos(w, kept),
         NEW S \in SUBSET DOMAIN selection.amount, NEW t \in Token
  PROVE  Sel!Holds(S, t) \in Nat /\ Sel!Holds(S, t) <= Total(w, t)
<1> DEFINE D == DOMAIN kept
           f == Column(w, t)
           At == {kept[k] : k \in S}
<1>1. PICK n \in 0..Len(w) : kept \in [1..n -> DOMAIN w]
  BY DEF Kept
<1>2. D = 1..n /\ n \in Nat /\ kept \in [D -> DOMAIN w] /\ D \subseteq Int
  BY <1>1
<1>3. \A j, k \in D : kept[j] = kept[k] => j = k
  <2>1. \A j, k \in D : j < k => kept[j] < kept[k]
    BY DEF Kept
  <2>2. \A k \in D : kept[k] \in Int
    BY <1>2
  <2> QED
    BY <1>2, <2>1, <2>2
<1>4. DOMAIN selection.amount = D
  BY DEF TransformUtxos
<1>5. IsFiniteSet(D)
  <2>1. n \in Int /\ 1 \in Int
    BY <1>2
  <2> QED
    BY <1>2, <2>1, FS_Interval
<1>6. /\ Total(w, t) = SumFunctionOnSet(f, DOMAIN w)
      /\ IsFiniteSet(DOMAIN w)
      /\ \A r \in DOMAIN w : f[r] = w[r][t] /\ f[r] \in Nat
  BY TotalType
<1> DEFINE h == [k \in D |-> f[kept[k]]]
<1>7. Column(selection.amount, t) = h
  BY <1>2, <1>4, <1>6 DEF Column, TransformUtxos
<1>8. Sel!Holds(S, t) = SumFunctionOnSet(h, S)
  BY <1>7, HoldsIsSum
<1>9. SumFunctionOnSet(h, S) = SumFunctionOnSet(f, At)
  <2> DEFINE W == DOMAIN w
  <2>1. /\ IsFiniteSet(W) /\ kept \in [D -> W] /\ S \in SUBSET D
        /\ \A r \in W : f[r] \in Int
    BY <1>2, <1>4, <1>6
  <2> HIDE DEF f, D, W
  <2>2. \A T \in SUBSET D :
          SumFunctionOnSet([k \in D |-> f[kept[k]]], T) = SumFunctionOnSet(f, {kept[k] : k \in T})
    BY <1>3, <1>5, <2>1, SumMoved
  <2> QED
    BY <2>1, <2>2
<1>10. At \in SUBSET DOMAIN w
  BY <1>2, <1>4
<1> HIDE DEF f, h, At
<1> QED
  BY <1>6, <1>8, <1>9, <1>10, SumOfNats

-----------------------------------------------------------------------------
(* Minimum of ada *)

\* The library's minimum grows with the tokens of an output.
LEMMA MinUtxoGrows ==
  ASSUME NEW u, NEW v, Tokens(u) \subseteq Tokens(v)
  PROVE  /\ MinRequiredUtxo(u) \in Nat /\ MinRequiredUtxo(v) \in Nat
         /\ 0 < MinRequiredUtxo(u)
         /\ MinRequiredUtxo(u) <= MinRequiredUtxo(v)
         /\ MinRequiredUtxo(v) <= BaseMinUtxo + TokenMinUtxo * Cardinality(Token)
<1>1. Tokens(v) \subseteq Token
  BY DEF Tokens
<1>2. /\ Cardinality(Tokens(u)) \in Nat /\ Cardinality(Tokens(v)) \in Nat /\ Cardinality(Token) \in Nat
      /\ Cardinality(Tokens(u)) <= Cardinality(Tokens(v))
      /\ Cardinality(Tokens(v)) <= Cardinality(Token)
  <2>1. IsFiniteSet(Token) /\ IsFiniteSet(Tokens(v)) /\ IsFiniteSet(Tokens(u))
    BY <1>1, Constants, FS_Subset
  <2> QED
    BY <1>1, <2>1, FS_Subset, FS_CardinalityType
<1> DEFINE a == Cardinality(Tokens(u))
           d == Cardinality(Tokens(v))
           c == Cardinality(Token)
<1>3. MinRequiredUtxo(u) = BaseMinUtxo + TokenMinUtxo * a /\ MinRequiredUtxo(v) = BaseMinUtxo + TokenMinUtxo * d
  BY DEF MinRequiredUtxo
<1> HIDE DEF a, d, c
<1>4. /\ TokenMinUtxo * a \in Nat /\ TokenMinUtxo * d \in Nat /\ TokenMinUtxo * c \in Nat
      /\ TokenMinUtxo * a <= TokenMinUtxo * d /\ TokenMinUtxo * d <= TokenMinUtxo * c
  BY <1>2, Constants, TimesGrows DEF a, d, c
<1>5. MinRequiredUtxo(v) <= BaseMinUtxo + TokenMinUtxo * c
  BY <1>3, <1>4, Constants
<1> QED
  BY <1>3, <1>4, <1>5, Constants DEF c

\* What the library asks for an output is positive and bounded.
LEMMA MinUtxoType ==
  ASSUME NEW v
  PROVE  /\ MinRequiredUtxo(v) \in Nat
         /\ 0 < MinRequiredUtxo(v)
         /\ MinRequiredUtxo(v) <= BaseMinUtxo + TokenMinUtxo * Cardinality(Token)
<1>1. Tokens(v) \subseteq Tokens(v)
  OBVIOUS
<1> QED
  BY <1>1, MinUtxoGrows

\* An adjusted output has the ada that its own tokens need, and keeps the rest.
LEMMA AdjustedOutput ==
  ASSUME NEW v \in NatValue
  PROVE  LET o == AdjustLovelaceOutput(v)
         IN  /\ o \in NatValue
             /\ \A t \in Token \ {Ada} : o[t] = v[t]
             /\ o[Ada] >= v[Ada] /\ o[Ada] >= MinUtxoValue
             /\ Tokens(o) # {} => o[Ada] >= MinRequiredUtxo(o)
             /\ Tokens(v) = {} => o[Ada] \in {v[Ada], MinUtxoValue}
<1> DEFINE o == AdjustLovelaceOutput(v)
           needed == IF Tokens(v) = {} THEN {} ELSE {MinRequiredUtxo(v)}
           ada == Max({v[Ada], MinUtxoValue} \cup needed)
<1>1. v[Ada] \in Nat /\ MinUtxoValue \in Nat /\ MinRequiredUtxo(v) \in Nat
  BY Constants, MinUtxoType DEF NatValue
<1>2. v[Ada] \in Int /\ MinUtxoValue \in Int /\ MinRequiredUtxo(v) \in Int
  BY <1>1
<1>3. /\ ada \in Nat /\ ada >= v[Ada] /\ ada >= MinUtxoValue
      /\ Tokens(v) # {} => ada >= MinRequiredUtxo(v)
      /\ Tokens(v) = {} => ada \in {v[Ada], MinUtxoValue}
  <2>1. CASE Tokens(v) = {}
    <3>1. ada = Max({v[Ada], MinUtxoValue})
      BY <2>1
    <3>2. LET m == Max({v[Ada], MinUtxoValue})
          IN  m \in {v[Ada], MinUtxoValue} /\ m >= v[Ada] /\ m >= MinUtxoValue
      BY <1>2, MaxOfTwo, Zenon
    <3> HIDE DEF ada
    <3> QED
      BY <1>1, <2>1, <3>1, <3>2
  <2>2. CASE Tokens(v) # {}
    <3> DEFINE c == MinRequiredUtxo(v)
    <3>1. ada = Max({v[Ada], MinUtxoValue} \cup {c})
      BY <2>2
    <3>2. LET m == Max({v[Ada], MinUtxoValue} \cup {c})
          IN  m \in {v[Ada], MinUtxoValue, c} /\ m >= v[Ada] /\ m >= MinUtxoValue /\ m >= c
      BY <1>2, MaxOfThree, Zenon
    <3> HIDE DEF ada
    <3> QED
      BY <1>1, <2>2, <3>1, <3>2
  <2> QED
    BY <2>1, <2>2
<1>4. o = [v EXCEPT ![Ada] = ada]
  BY DEF AdjustLovelaceOutput
<1> HIDE DEF ada, needed
<1>5. o \in NatValue /\ o[Ada] = ada /\ \A t \in Token \ {Ada} : o[t] = v[t]
  BY <1>3, <1>4, Constants DEF NatValue
<1>6. Tokens(o) = Tokens(v)
  BY <1>5 DEF Tokens
<1>7. MinRequiredUtxo(o) = MinRequiredUtxo(v)
  BY <1>6 DEF MinRequiredUtxo
<1> HIDE DEF o
<1> QED
  BY <1>3, <1>5, <1>6, <1>7 DEF o

\* What the code adds up, where it fits a word.
LEMMA SumFits ==
  ASSUME NEW list \in Seq(NatValue), NEW t \in Token
  PROVE  /\ SumOfValues(list)[t] = Total(list, t) % Word
         /\ SumOfValues(list)[t] \in Nat
         /\ Total(list, t) < Word => SumOfValues(list)[t] = Total(list, t)
<1>1. SumOfValues(list)[t] = Total(list, t) % Word
  BY DEF SumOfValues, Total
<1>2. Total(list, t) \in Nat
  BY TotalType
<1> QED
  BY <1>1, <1>2, ModSmall, ModType

\* The change is reckoned as an output of its own.
LEMMA ChangeMinType ==
  ASSUME NEW w
  PROVE  LET least == ChangeMinUtxo(w)
             needed == MinRequiredUtxo(SubtractSumMaps(SumOfValues(w), Paid))
         IN  /\ least \in Nat /\ 0 < least /\ least >= MinUtxoValue /\ least >= needed
             /\ least <= MostMinUtxo
             /\ MostMinUtxo \in Nat
<1> DEFINE needed == MinRequiredUtxo(SubtractSumMaps(SumOfValues(w), Paid))
           most == BaseMinUtxo + TokenMinUtxo * Cardinality(Token)
<1>1. needed \in Nat /\ 0 < needed /\ needed <= most /\ MinUtxoValue \in Nat
  BY Constants, MinUtxoType
<1>2. most \in Nat
  <2>1. TokenMinUtxo \in Nat /\ Cardinality(Token) \in Nat /\ BaseMinUtxo \in Nat
    BY Constants, FS_CardinalityType
  <2> QED
    BY <2>1
<1>3. ChangeMinUtxo(w) = Max({MinUtxoValue, needed}) /\ MostMinUtxo = Max({MinUtxoValue, most})
  BY DEF ChangeMinUtxo, MostMinUtxo
<1> HIDE DEF needed, most
<1>4. LET m == Max({MinUtxoValue, needed})
      IN  m \in {MinUtxoValue, needed} /\ m >= MinUtxoValue /\ m >= needed
  BY <1>1, MaxOfTwo
<1>5. LET m == Max({MinUtxoValue, most})
      IN  m \in {MinUtxoValue, most} /\ m >= MinUtxoValue /\ m >= most
  BY <1>1, <1>2, MaxOfTwo
<1> QED
  BY <1>1, <1>2, <1>3, <1>4, <1>5 DEF needed

-----------------------------------------------------------------------------
(* The invariant *)

\* The call came to reckon the change.
Reckoned == outcome.kind \in {"tx", "insufficient"}

\* What the call pays, before the change.
Outgoing == IF Bridging THEN <<OnlyAda(OutputLovelace)>> ELSE Adjusted(call.receivers)

BridgeMetadata ==
  [kind |-> "bridge", bridgingFee |-> BridgingFee,
   amounts |-> [k \in DOMAIN call.receivers |-> call.receivers[k][Ada]]]

OutputsPrepared ==
  /\ ~BelowMinFee
  /\ receivers = Outgoing
  /\ Bridging => metadata = BridgeMetadata

SelectionAsked ==
  /\ wallet \in Wallets
  /\ \E kept \in Kept(wallet) : selection.amount = TransformUtxos(wallet, kept)
  /\ selection.conditions = Conditions(wallet)

InputsFound ==
  \E S \in SUBSET DOMAIN selection.amount :
    /\ answer = [kind |-> "selected", inputs |-> S, sum |-> Sel!SumOf(S)]
    /\ \A t \in Token : Sel!Holds(S, t) >= selection.conditions[t]

Inv ==
  /\ call \in Calls
  /\ pc # "done" => outcome = None
  /\ pc = "params" => ~BelowMinFee
  /\ pc \in {"utxos", "select", "ttl", "fee"} \/ Reckoned => OutputsPrepared
  /\ pc \in {"select", "ttl", "fee"} \/ Reckoned => SelectionAsked
  /\ pc = "fee" \/ (pc = "ttl" /\ answer.kind = "selected") \/ Reckoned => InputsFound
  /\ outcome.kind = "tx" =>
       /\ outcome.fee \in Fees /\ ~Insufficient(outcome.fee)
       /\ outcome.inputs = answer.inputs /\ outcome.outputs = Outputs(outcome.fee)
  /\ outcome.kind = "insufficient" => outcome.fee \in Fees /\ Insufficient(outcome.fee)

\* A call starts without an outcome.
LEMMA InvInit == Init => Inv
  BY DEF Init, Inv, None, Reckoned

\* A failed call, and one that asked for a fee only, has nothing to answer for.
LEMMA InvOther ==
  ASSUME Inv, pc' = "done", call' = call, outcome'.kind \notin {"tx", "insufficient"}
  PROVE  Inv'
  BY DEF Inv, Reckoned

\* What inputs hold depends on the list that was asked about.
LEMMA HoldsFrame ==
  ASSUME selection' = selection
  PROVE  \A S : /\ Sel!SumOf(S)' = Sel!SumOf(S)
                /\ \A t : Sel!Holds(S, t)' = Sel!Holds(S, t)
  BY DEF Sel!SumOf, Sel!Holds, Sel!MapThenSumSet, Sel!MapThenFoldSet

\* Every step of a call keeps what was prepared before it.
LEMMA InvStep == Inv /\ [Next]_vars => Inv'
<1> SUFFICES ASSUME Inv, [Next]_vars PROVE Inv'
  OBVIOUS
<1>1. ASSUME NEW why, NEW disposed, Fail(why, disposed) PROVE Inv'
  BY <1>1, InvOther DEF Fail
<1>2. CASE Reject \/ ParamsFail \/ CreateMetadataFails \/ GetUtxosFails \/ NoInputs \/ GetTipFails \/ CliFails
  BY <1>1, <1>2 DEF Reject, ParamsFail, CreateMetadataFails, GetUtxosFails, NoInputs, GetTipFails, CliFails
<1>3. CASE NewTxBuilderFails \/ GetBridgingFee \/ \E fee \in Fees : calculateFee(fee)
  BY <1>3, InvOther DEF NewTxBuilderFails, GetBridgingFee, calculateFee
<1>4. CASE Begin
  BY <1>4 DEF Begin, Inv, Reckoned, None, BelowMinFee, Bridging
<1>5. CASE CreateMetadata \/ AdjustReceivers
  <2>1. /\ pc = "params" /\ pc' = "utxos" /\ call' = call /\ outcome' = None /\ call \in Calls
        /\ ~BelowMinFee
    BY <1>5 DEF CreateMetadata, AdjustReceivers, PreparesBridging, Inv
  <2>2. OutputsPrepared'
    BY <1>5, <2>1 DEF CreateMetadata, AdjustReceivers, PreparesBridging, OutputsPrepared, Outgoing,
       BridgeMetadata, Bridging, BelowMinFee, OutputLovelace, BridgingFee, BeforeAdditionalCharges,
       OutputLovelaceBase
  <2> QED
    BY <2>1, <2>2 DEF Inv, Reckoned, None
<1>6. ASSUME NEW utxos \in Wallets, GetUtxos(utxos) PROVE Inv'
  <2>1. /\ pc = "utxos" /\ pc' = "select" /\ outcome' = None /\ wallet' = utxos
        /\ UNCHANGED <<call, receivers, metadata>>
    BY <1>6 DEF GetUtxos, Inv
  <2>2. OutputsPrepared'
    BY <2>1 DEF Inv, OutputsPrepared, Outgoing,
       BridgeMetadata, Bridging, BelowMinFee, OutputLovelace, BridgingFee, BeforeAdditionalCharges,
       OutputLovelaceBase
  <2>3. SelectionAsked'
    <3>1. PICK kept \in Kept(utxos) : /\ selection'.amount = TransformUtxos(utxos, kept)
                                      /\ selection'.conditions = Conditions(utxos)
      BY <1>6 DEF GetUtxos
    <3>2. Conditions(wallet)' = Conditions(utxos)
      BY <2>1 DEF Conditions, Paid, ChangeMinUtxo
    <3> QED
      BY <2>1, <3>1, <3>2 DEF SelectionAsked
  <2> QED
    BY <2>1, <2>2, <2>3 DEF Inv, Reckoned, None
<1> DEFINE Same == UNCHANGED <<call, receivers, metadata, wallet, selection>>
<1>7. Same => /\ OutputsPrepared => OutputsPrepared'
              /\ SelectionAsked => SelectionAsked'
  BY DEF OutputsPrepared, Outgoing, SelectionAsked, Conditions, Paid, ChangeMinUtxo,
     BridgeMetadata, Bridging, BelowMinFee, OutputLovelace, BridgingFee, BeforeAdditionalCharges,
     OutputLovelaceBase
<1>8. CASE GetUTXOsForAmounts
  <2>1. /\ pc = "select" /\ pc' = "ttl" /\ outcome' = None /\ Same /\ Sel!Next
    BY <1>8 DEF GetUTXOsForAmounts, Inv, Sel!Next
  <2>2. answer'.kind = "selected" => InputsFound'
    <3> SUFFICES ASSUME answer'.kind = "selected" PROVE InputsFound'
      OBVIOUS
    <3>1. PICK S \in SUBSET Sel!Utxos : Sel!Select(S)
      BY <2>1 DEF Sel!Next, Sel!LimitReached, Sel!CouldNotSelect
    <3>2. /\ answer' = [kind |-> "selected", inputs |-> S, sum |-> Sel!SumOf(S)]
          /\ \A t \in Token : Sel!Holds(S, t) >= selection.conditions[t]
          /\ S \in SUBSET DOMAIN selection.amount
      BY <3>1 DEF Sel!Select, Sel!Funds, Sel!Utxos
    <3>3. Sel!SumOf(S)' = Sel!SumOf(S) /\ \A t \in Token : Sel!Holds(S, t)' = Sel!Holds(S, t)
      BY <2>1, HoldsFrame
    <3> QED
      BY <2>1, <3>2, <3>3 DEF InputsFound
  <2> QED
    BY <1>7, <2>1, <2>2 DEF Inv, Reckoned, None
<1>9. Same /\ answer' = answer => (InputsFound => InputsFound')
  BY HoldsFrame DEF InputsFound
<1>10. CASE PopulateTimeToLive
  <2>1. /\ pc = "ttl" /\ pc' = "fee" /\ outcome' = None /\ Same /\ answer' = answer
        /\ answer.kind = "selected"
    BY <1>10 DEF PopulateTimeToLive, Inv
  <2> QED
    BY <1>7, <1>9, <2>1 DEF Inv, Reckoned, None
<1>11. ASSUME NEW fee \in Fees, CreateTx(fee) \/ InsufficientChange(fee) PROVE Inv'
  <2>1. pc = "fee" /\ pc' = "done" /\ Same /\ answer' = answer
    BY <1>11 DEF CreateTx, InsufficientChange
  <2>2. OutputsPrepared' /\ SelectionAsked' /\ InputsFound'
    BY <1>7, <1>9, <2>1 DEF Inv
  <2>3. \A f : Insufficient(f)' = Insufficient(f) /\ Outputs(f)' = Outputs(f)
    BY <2>1 DEF Insufficient, Outputs, Change, ChangeLovelace, Remaining, ChangeMinUtxo, Paid
  <2>4. CASE CreateTx(fee)
    BY <2>1, <2>2, <2>3, <2>4 DEF CreateTx, Inv
  <2>5. CASE InsufficientChange(fee)
    BY <2>1, <2>2, <2>3, <2>5 DEF InsufficientChange, Inv
  <2> QED
    BY <1>11, <2>4, <2>5
<1>12. CASE UNCHANGED vars
  <2>1. Same /\ UNCHANGED <<pc, answer, outcome>>
    BY <1>12 DEF vars
  <2>2. \A f : Insufficient(f)' = Insufficient(f) /\ Outputs(f)' = Outputs(f)
    BY <2>1 DEF Insufficient, Outputs, Change, ChangeLovelace, Remaining, ChangeMinUtxo, Paid
  <2>3. BelowMinFee' = BelowMinFee
    BY <2>1 DEF BelowMinFee, Bridging
  <2> QED
    BY <1>7, <1>9, <2>1, <2>2, <2>3 DEF Inv, Reckoned
<1> QED
  BY <1>2, <1>3, <1>4, <1>5, <1>6, <1>8, <1>10, <1>11, <1>12 DEF Next

-----------------------------------------------------------------------------
(* What a call pays *)

\* An amount of ada and nothing else.
LEMMA OnlyAdaType ==
  ASSUME NEW n \in Nat
  PROVE  /\ OnlyAda(n) \in NatValue /\ OnlyAda(n)[Ada] = n
         /\ Tokens(OnlyAda(n)) = {} /\ \A t \in Token \ {Ada} : OnlyAda(n)[t] = 0
  BY Constants DEF OnlyAda, NatValue, Tokens

\* What a bridging call pays to the multisig address.
LEMMA BridgingOutput ==
  ASSUME call \in Calls, SumsFit
  PROVE  /\ OutputLovelace \in Nat /\ OutputLovelace >= MinUtxoValue
         /\ OutputLovelace + PotentialFee + MostMinUtxo < Word
         /\ OutputLovelace = Total(call.receivers, Ada) + BridgingFee
         /\ BridgingFee \in Nat /\ BridgingFee >= call.bridgingFee
<1> DEFINE base == Total(call.receivers, Ada)
           before == BeforeAdditionalCharges
           fee == call.bridgingFee
<1>1. call.receivers \in Seq(NatValue) /\ fee \in Nat /\ Ada \in Token
  BY Constants DEF Value, NatValue, Amount
<1>2. base \in Nat /\ base < Word /\ base + MinUtxoValue + fee + (PotentialFee + MostMinUtxo) < Word
  BY <1>1, TotalType DEF SumsFit
<1>3. OutputLovelaceBase = base
  BY <1>1, <1>2, SumFits DEF OutputLovelaceBase
<1>4. before \in Nat /\ before >= base /\ before >= MinUtxoValue /\ before \in {base, MinUtxoValue}
  BY <1>1, <1>2, <1>3, OnlyAdaType, AdjustedOutput DEF BeforeAdditionalCharges, NatValue
<1>5. MinUtxoValue \in Nat /\ PotentialFee \in Nat /\ MostMinUtxo \in Nat /\ Word \in Nat
  BY Constants, ChangeMinType
<1>6. OutputLovelace = (before + fee) % Word /\ BridgingFee = (fee + (before - base)) % Word
  BY <1>3 DEF OutputLovelace, BridgingFee
<1> HIDE DEF base, before, fee
<1>7. /\ before + fee \in Nat /\ before + fee < Word
      /\ fee + (before - base) \in Nat /\ fee + (before - base) < Word
      /\ before + fee + PotentialFee + MostMinUtxo < Word
  BY <1>1, <1>2, <1>4, <1>5
<1>8. OutputLovelace = before + fee /\ BridgingFee = fee + (before - base)
  BY <1>6, <1>7, ModSmall
<1>9. /\ OutputLovelace \in Nat /\ OutputLovelace >= MinUtxoValue
      /\ OutputLovelace + PotentialFee + MostMinUtxo < Word
      /\ OutputLovelace = base + BridgingFee
      /\ BridgingFee \in Nat /\ BridgingFee >= fee
  BY <1>1, <1>2, <1>4, <1>5, <1>7, <1>8
<1> QED
  BY <1>9 DEF base, fee

\* What a call pays fits a word, with the fee and the change, and every output
\* has the ada that it needs.
LEMMA OutgoingFits ==
  ASSUME call \in Calls, SumsFit
  PROVE  /\ Outgoing \in Seq(NatValue)
         /\ \A t \in Token : Total(Outgoing, t) \in Nat /\ Total(Outgoing, t) < Word
         /\ Total(Outgoing, Ada) + PotentialFee + MostMinUtxo < Word
         /\ \A k \in DOMAIN Outgoing :
              LET o == Outgoing[k]
              IN  /\ o[Ada] >= MinUtxoValue
                  /\ Tokens(o) # {} => o[Ada] >= MinRequiredUtxo(o)
<1>1. /\ Ada \in Token /\ PotentialFee \in Nat /\ MostMinUtxo \in Nat /\ Word \in Nat
  BY Constants, ChangeMinType
<1>2. CASE Bridging
  <2> DEFINE o == OnlyAda(OutputLovelace)
  <2>1. Outgoing = <<o>>
    BY <1>2 DEF Outgoing
  <2>2. OutputLovelace \in Nat /\ OutputLovelace >= MinUtxoValue /\ OutputLovelace + PotentialFee + MostMinUtxo < Word
    BY BridgingOutput
  <2>3. o \in NatValue /\ o[Ada] = OutputLovelace /\ Tokens(o) = {} /\ \A t \in Token \ {Ada} : o[t] = 0
    BY <2>2, OnlyAdaType
  <2> HIDE DEF o
  <2>4. \A t \in Token : Total(Outgoing, t) = o[t] /\ o[t] \in Nat /\ o[t] < Word
    <3>1. \A t \in Token : Total(<<o>>, t) = o[t]
      BY <2>3, TotalOne
    <3> QED
      BY <1>1, <2>1, <2>2, <2>3, <3>1
  <2>5. Outgoing \in Seq(NatValue) /\ \A k \in DOMAIN Outgoing : Outgoing[k] = o
    BY <2>1, <2>3
  <2> QED
    BY <1>1, <2>2, <2>3, <2>4, <2>5
<1>3. CASE ~Bridging
  <2> DEFINE list == call.receivers
  <2>1. Outgoing = Adjusted(list)
    BY <1>3 DEF Outgoing
  <2>2. list \in Seq(NatValue)
    BY Constants DEF Value, NatValue, Amount
  <2> HIDE DEF list
  <2>3. \A k \in DOMAIN list : Adjusted(list)[k] = AdjustLovelaceOutput(list[k]) /\ list[k] \in NatValue
    BY <2>2 DEF Adjusted
  <2>4. DOMAIN Adjusted(list) = DOMAIN list
    BY DEF Adjusted
  <2>5. Adjusted(list) \in Seq(NatValue)
    <3>1. \A k \in 1..Len(list) : AdjustLovelaceOutput(list[k]) \in NatValue
      BY <2>2, <2>3, AdjustedOutput
    <3> QED
      BY <2>2, <3>1 DEF Adjusted
  <2>6. \A t \in Token \ {Ada} : Total(Adjusted(list), t) = Total(list, t)
    BY <2>2, <2>3, <2>4, <2>5, TotalSame, AdjustedOutput
  <2>7. \A t \in Token : Total(list, t) < Word
    BY DEF SumsFit, list
  <2>8. Total(Adjusted(list), Ada) + (PotentialFee + MostMinUtxo) < Word
    BY DEF SumsFit, list
  <2>9. \A t \in Token : Total(Adjusted(list), t) \in Nat
    BY <2>5, TotalType
  <2>10. Total(Adjusted(list), Ada) + PotentialFee + MostMinUtxo < Word /\ Total(Adjusted(list), Ada) < Word
    BY <1>1, <2>8, <2>9
  <2>11. \A k \in DOMAIN list :
           LET o == Adjusted(list)[k]
           IN  o[Ada] >= MinUtxoValue /\ (Tokens(o) # {} => o[Ada] >= MinRequiredUtxo(o))
    BY <2>3, AdjustedOutput
  <2> QED
    BY <2>1, <2>4, <2>5, <2>6, <2>7, <2>9, <2>10, <2>11
<1> QED
  BY <1>2, <1>3

-----------------------------------------------------------------------------
(* The change *)

\* What the chosen inputs hold.
Held(t) == Sel!Holds(answer.inputs, t)

\* The inputs that were found, and what is left of them: no sum wrapped around.
LEMMA Reckoning ==
  ASSUME Inv, SumsFit, Reckoned
  PROVE  /\ receivers = Outgoing
         /\ \A t \in Token :
              /\ Held(t) \in Nat /\ Held(t) < Word /\ Held(t) <= Total(wallet, t)
              /\ Paid[t] = Total(receivers, t) /\ Paid[t] \in Nat
              /\ Paid[t] <= Held(t)
              /\ Remaining[t] = Held(t) - Paid[t]
              /\ SumOfValues(wallet)[t] = Total(wallet, t) /\ Total(wallet, t) \in Nat
         /\ Paid[Ada] + PotentialFee + ChangeMinUtxo(wallet) <= Held(Ada)
<1>1. /\ call \in Calls /\ receivers = Outgoing
      /\ wallet \in Wallets
      /\ selection.conditions = Conditions(wallet)
  BY DEF Inv, OutputsPrepared, SelectionAsked
<1>2. PICK kept \in Kept(wallet) : selection.amount = TransformUtxos(wallet, kept)
  BY DEF Inv, SelectionAsked
<1>3. PICK S \in SUBSET DOMAIN selection.amount :
        /\ answer = [kind |-> "selected", inputs |-> S, sum |-> Sel!SumOf(S)]
        /\ \A t \in Token : Sel!Holds(S, t) >= selection.conditions[t]
  BY DEF Inv, InputsFound
<1>4. /\ Ada \in Token /\ Word \in Nat /\ PotentialFee \in Nat /\ MostMinUtxo \in Nat
      /\ ChangeMinUtxo(wallet) \in Nat /\ ChangeMinUtxo(wallet) <= MostMinUtxo
  BY Constants, ChangeMinType
<1>5. wallet \in Seq(NatValue)
  BY <1>1, Constants DEF Value, NatValue, Amount
<1>6. \A t \in Token : /\ Total(wallet, t) \in Nat /\ Total(wallet, t) < Word
                       /\ SumOfValues(wallet)[t] = Total(wallet, t)
  BY <1>1, <1>5, TotalType, SumFits DEF SumsFit
<1>7. \A t \in Token : Held(t) = Sel!Holds(S, t) /\ answer.sum[t] = Held(t) % Word
  <2>1. answer.inputs = S /\ answer.sum = Sel!SumOf(S)
    BY <1>3
  <2>2. \A t \in Token : Sel!SumOf(S)[t] = Sel!Holds(S, t) % Word
    BY DEF Sel!SumOf
  <2> QED
    BY <2>1, <2>2 DEF Held
<1>8. \A t \in Token : Held(t) \in Nat /\ Held(t) <= Total(wallet, t) /\ Held(t) < Word
  <2>1. \A t \in Token : Sel!Holds(S, t) \in Nat /\ Sel!Holds(S, t) <= Total(wallet, t)
    BY <1>2, <1>5, KeptHolds
  <2> QED
    BY <1>4, <1>6, <1>7, <2>1
<1>9. \A t \in Token : answer.sum[t] = Held(t)
  BY <1>7, <1>8, ModSmall
<1>10. \A t \in Token : Total(receivers, t) \in Nat /\ Total(receivers, t) < Word /\ Paid[t] = Total(receivers, t)
  BY <1>1, OutgoingFits, SumFits DEF Paid
<1>11. Total(receivers, Ada) + PotentialFee + MostMinUtxo < Word
  BY <1>1, OutgoingFits
<1>12. /\ \A t \in Token \ {Ada} : selection.conditions[t] = Paid[t]
       /\ selection.conditions[Ada] = Paid[Ada] + PotentialFee + ChangeMinUtxo(wallet)
  <2> DEFINE all == Paid[Ada] + PotentialFee + ChangeMinUtxo(wallet)
  <2>1. all \in Nat /\ all < Word
    BY <1>4, <1>10, <1>11
  <2>2. DOMAIN Paid = Token
    BY DEF Paid, SumOfValues
  <2>3. /\ \A t \in Token \ {Ada} : Conditions(wallet)[t] = Paid[t]
        /\ Conditions(wallet)[Ada] = all % Word
    BY <1>4, <2>2 DEF Conditions
  <2> HIDE DEF all
  <2>4. all % Word = all
    BY <2>1, ModSmall
  <2> QED
    BY <1>1, <2>3, <2>4 DEF all
<1>13. /\ \A t \in Token : Paid[t] <= Held(t)
       /\ Paid[Ada] + PotentialFee + ChangeMinUtxo(wallet) <= Held(Ada)
  <2>1. \A t \in Token : Held(t) >= selection.conditions[t]
    BY <1>3, <1>7
  <2>2. Held(Ada) >= Paid[Ada] + PotentialFee + ChangeMinUtxo(wallet)
    BY <1>4, <1>12, <2>1
  <2>3. Paid[Ada] <= Held(Ada)
    BY <1>4, <1>8, <1>10, <2>2
  <2> QED
    BY <1>4, <1>8, <1>10, <1>12, <2>1, <2>2, <2>3
<1>14. \A t \in Token : Remaining[t] = Held(t) - Paid[t]
  <2>1. \A t \in Token : Held(t) - Paid[t] \in Nat /\ Held(t) - Paid[t] < Word
    BY <1>4, <1>8, <1>10, <1>13
  <2>2. \A t \in Token : Remaining[t] = (Held(t) - Paid[t]) % Word
    BY <1>9 DEF Remaining
  <2> QED
    BY <2>1, <2>2, ModSmall
<1> QED
  BY <1>1, <1>6, <1>8, <1>10, <1>13, <1>14

\* The change wraps around exactly when the fee is more than what is left, and
\* then it is seen.
LEMMA ChangeOrWrap ==
  ASSUME Inv, SumsFit, Reckoned, NEW fee \in Fees
  PROVE  /\ ChangeLovelace = Held(Ada) - Paid[Ada]
         /\ fee <= ChangeLovelace => Change(fee) = ChangeLovelace - fee
         /\ fee > ChangeLovelace => Insufficient(fee)
         /\ fee <= PotentialFee => /\ fee <= ChangeLovelace
                                   /\ Change(fee) > 0 /\ ~Insufficient(fee)
<1> DEFINE left == Held(Ada) - Paid[Ada]
           least == ChangeMinUtxo(wallet)
<1>1. /\ fee \in Nat /\ fee < Word /\ Word \in Nat /\ PotentialFee \in Nat
      /\ least \in Nat /\ 0 < least
  BY Constants, ChangeMinType
<1>2. /\ Held(Ada) \in Nat /\ Held(Ada) < Word /\ Paid[Ada] \in Nat
      /\ Paid[Ada] + PotentialFee + least <= Held(Ada)
      /\ ChangeLovelace = left
  BY Constants, Reckoning DEF ChangeLovelace
<1>3. left \in Nat /\ left < Word /\ PotentialFee + least <= left
  BY <1>1, <1>2
<1>4. Change(fee) = (left - fee) % Word
  BY <1>2 DEF Change
<1> HIDE DEF left, least
<1>5. fee <= left => Change(fee) = left - fee
  <2> SUFFICES ASSUME fee <= left PROVE Change(fee) = left - fee
    OBVIOUS
  <2>1. left - fee \in Nat /\ left - fee < Word
    BY <1>1, <1>3
  <2> QED
    BY <1>4, <2>1, ModSmall
<1>6. fee > left => Insufficient(fee)
  <2> SUFFICES ASSUME fee > left PROVE Insufficient(fee)
    OBVIOUS
  <2>1. left - fee \in Int /\ -Word <= left - fee /\ left - fee < 0
    BY <1>1, <1>3
  <2>2. Change(fee) = left - fee + Word
    BY <1>4, <2>1, ModWrap
  <2>3. Change(fee) # 0 /\ Change(fee) > left
    BY <1>1, <1>3, <2>2
  <2> QED
    BY <1>2, <2>3 DEF Insufficient
<1>7. ASSUME fee <= PotentialFee
      PROVE  fee <= left /\ Change(fee) > 0 /\ ~Insufficient(fee)
  <2>1. fee <= left
    BY <1>1, <1>3, <1>7
  <2>2. Change(fee) = left - fee /\ Change(fee) >= least /\ Change(fee) > 0 /\ Change(fee) <= left
    BY <1>1, <1>3, <1>5, <1>7, <2>1
  <2>3. ~(Change(fee) > ChangeLovelace \/ Change(fee) < ChangeMinUtxo(wallet))
    BY <1>1, <1>2, <1>3, <2>2 DEF least
  <2> QED
    BY <2>1, <2>2, <2>3 DEF Insufficient
<1> QED
  BY <1>2, <1>5, <1>6, <1>7 DEF left

\* What a transaction that was built pays.
LEMMA BuiltOutputs ==
  ASSUME Inv, SumsFit, Built
  PROVE  LET fee == outcome.fee
             change == [Remaining EXCEPT ![Ada] = Change(fee)]
         IN  /\ fee \in Fees /\ ~Insufficient(fee)
             /\ \A t \in Token : Sel!Holds(outcome.inputs, t) = Held(t)
             /\ Change(fee) \in Nat /\ fee + Change(fee) = Held(Ada) - Paid[Ada]
             /\ receivers = Outgoing /\ receivers \in Seq(NatValue)
             /\ change \in NatValue /\ change[Ada] = Change(fee)
             /\ \A t \in Token \ {Ada} : change[t] = Held(t) - Paid[t]
             /\ Change(fee) = 0 => outcome.outputs = receivers
             /\ Change(fee) # 0 => outcome.outputs = Append(receivers, change)
<1> DEFINE fee == outcome.fee
           change == [Remaining EXCEPT ![Ada] = Change(fee)]
<1>1. Reckoned /\ call \in Calls
  BY DEF Built, Reckoned, Inv
<1>2. /\ fee \in Fees /\ ~Insufficient(fee)
      /\ outcome.inputs = answer.inputs /\ outcome.outputs = Outputs(fee)
  BY DEF Inv, Built
<1>3. /\ receivers = Outgoing
      /\ \A t \in Token : /\ Held(t) \in Nat /\ Paid[t] \in Nat /\ Paid[t] <= Held(t)
                          /\ Remaining[t] = Held(t) - Paid[t]
  BY <1>1, Reckoning
<1>4. receivers \in Seq(NatValue)
  BY <1>1, <1>3, OutgoingFits
<1>5. Ada \in Token /\ fee \in Nat
  BY <1>2, Constants
<1> HIDE DEF fee
<1>6. /\ ChangeLovelace = Held(Ada) - Paid[Ada]
      /\ fee <= ChangeLovelace /\ Change(fee) = ChangeLovelace - fee
  <2>1. /\ ChangeLovelace = Held(Ada) - Paid[Ada]
        /\ fee <= ChangeLovelace => Change(fee) = ChangeLovelace - fee
        /\ fee > ChangeLovelace => Insufficient(fee)
    BY <1>1, <1>2, ChangeOrWrap
  <2>2. ChangeLovelace \in Nat
    BY <1>3, <1>5, <2>1
  <2> QED
    BY <1>2, <1>5, <2>1, <2>2
<1>7. Change(fee) \in Nat /\ fee + Change(fee) = Held(Ada) - Paid[Ada]
  BY <1>3, <1>5, <1>6
<1>8. /\ change[Ada] = Change(fee)
      /\ \A t \in Token \ {Ada} : change[t] = Remaining[t]
      /\ DOMAIN change = Token /\ change = [t \in Token |-> change[t]]
  BY <1>5 DEF Remaining
<1>9. change \in NatValue /\ \A t \in Token \ {Ada} : change[t] = Held(t) - Paid[t]
  <2>1. \A t \in Token \ {Ada} : change[t] = Held(t) - Paid[t] /\ change[t] \in Nat
    BY <1>3, <1>8
  <2>2. \A t \in Token : change[t] \in Nat
    BY <1>7, <1>8, <2>1
  <2> QED
    BY <1>8, <2>1, <2>2 DEF NatValue
<1>10. Outputs(fee) = receivers \o (IF Change(fee) = 0 THEN << >> ELSE <<change>>)
  BY DEF Outputs
<1> HIDE DEF change
<1>11. /\ Change(fee) = 0 => outcome.outputs = receivers
       /\ Change(fee) # 0 => outcome.outputs = Append(receivers, change)
  <2>1. receivers \o << >> = receivers /\ receivers \o <<change>> = Append(receivers, change)
    BY <1>4, <1>9
  <2> QED
    BY <1>2, <1>10, <2>1
<1> QED
  BY <1>2, <1>3, <1>4, <1>7, <1>8, <1>9, <1>11 DEF Held, fee, change

-----------------------------------------------------------------------------
(* The properties *)

\* Whatever may fail on the way, a call that comes to reckon the change has the
\* outputs of its request, the conditions of its wallet, and inputs that hold
\* what the conditions want.
THEOREM InvCorrect == Spec => []Inv
  BY InvInit, InvStep, PTL DEF Spec

\* What goes in comes out, the fee included.
LEMMA ConservedIfInv == Inv /\ SumsFit => ValueConserved
<1> SUFFICES ASSUME Inv, SumsFit, Built
             PROVE  /\ Sel!Holds(outcome.inputs, Ada) = Total(outcome.outputs, Ada) + outcome.fee
                    /\ outcome.fee <= PotentialFee =>
                         \A t \in Token \ {Ada} :
                           Sel!Holds(outcome.inputs, t) = Total(outcome.outputs, t)
  BY DEF ValueConserved
<1> DEFINE fee == outcome.fee
           change == [Remaining EXCEPT ![Ada] = Change(fee)]
<1>1. /\ fee \in Fees
      /\ \A t \in Token : Sel!Holds(outcome.inputs, t) = Held(t)
      /\ Change(fee) \in Nat /\ fee + Change(fee) = Held(Ada) - Paid[Ada]
      /\ receivers \in Seq(NatValue)
      /\ change \in NatValue /\ change[Ada] = Change(fee)
      /\ \A t \in Token \ {Ada} : change[t] = Held(t) - Paid[t]
      /\ Change(fee) = 0 => outcome.outputs = receivers
      /\ Change(fee) # 0 => outcome.outputs = Append(receivers, change)
  BY BuiltOutputs
<1>2. Reckoned /\ Ada \in Token /\ fee \in Nat /\ PotentialFee \in Nat
  BY <1>1, Constants DEF Built, Reckoned
<1>3. \A t \in Token : /\ Held(t) \in Nat /\ Paid[t] \in Nat
                       /\ Paid[t] = Total(receivers, t)
  BY <1>2, Reckoning
<1>4. fee <= PotentialFee => Change(fee) # 0
  BY <1>1, <1>2, ChangeOrWrap
<1> HIDE DEF change, fee
<1>5. CASE Change(fee) = 0
  BY <1>1, <1>2, <1>3, <1>4, <1>5 DEF fee
<1>6. CASE Change(fee) # 0
  <2>1. \A t \in Token : Total(outcome.outputs, t) = Total(receivers, t) + change[t]
    BY <1>1, <1>6, TotalAppend
  <2>2. Sel!Holds(outcome.inputs, Ada) = Total(outcome.outputs, Ada) + fee
    <3>1. Total(outcome.outputs, Ada) = Paid[Ada] + Change(fee)
      BY <1>1, <1>2, <1>3, <2>1
    <3>2. Held(Ada) \in Nat /\ Paid[Ada] \in Nat /\ Sel!Holds(outcome.inputs, Ada) = Held(Ada)
      BY <1>1, <1>2, <1>3
    <3>3. Change(fee) \in Nat /\ fee + Change(fee) = Held(Ada) - Paid[Ada]
      BY <1>1
    <3>4. fee \in Nat
      BY <1>2
    <3> QED
      BY <3>1, <3>2, <3>3, <3>4
  <2>3. \A t \in Token \ {Ada} : Sel!Holds(outcome.inputs, t) = Total(outcome.outputs, t)
    <3> SUFFICES ASSUME NEW t \in Token \ {Ada}
                 PROVE  Sel!Holds(outcome.inputs, t) = Total(outcome.outputs, t)
      OBVIOUS
    <3>1. Total(outcome.outputs, t) = Paid[t] + (Held(t) - Paid[t])
      BY <1>1, <1>3, <2>1
    <3>2. Held(t) \in Nat /\ Paid[t] \in Nat /\ Sel!Holds(outcome.inputs, t) = Held(t)
      BY <1>1, <1>3
    <3> QED
      BY <3>1, <3>2
  <2> QED
    BY <2>2, <2>3 DEF fee
<1> QED
  BY <1>5, <1>6

\* A fee that was reserved never fails the call.
LEMMA FeeSufficesIfInv == Inv /\ SumsFit => PotentialFeeSuffices
<1> SUFFICES ASSUME Inv, SumsFit, outcome.kind = "insufficient"
             PROVE  outcome.fee > PotentialFee
  BY DEF PotentialFeeSuffices
<1>1. Reckoned /\ outcome.fee \in Fees /\ Insufficient(outcome.fee)
  BY DEF Reckoned, Inv
<1>2. outcome.fee \in Nat /\ PotentialFee \in Nat
  BY <1>1, Constants
<1>3. ~(outcome.fee <= PotentialFee)
  BY <1>1, ChangeOrWrap
<1> QED
  BY <1>2, <1>3

\* The change holds no more tokens than it was reckoned with.
LEMMA MinUtxoIfInv == Inv /\ SumsFit => OutputsHaveMinUtxo
<1> DEFINE Fine(o) == o[Ada] >= MinUtxoValue /\ (Tokens(o) # {} => o[Ada] >= MinRequiredUtxo(o))
<1> SUFFICES ASSUME Inv, SumsFit, Built
             PROVE  \A k \in DOMAIN outcome.outputs : Fine(outcome.outputs[k])
  BY DEF OutputsHaveMinUtxo
<1> DEFINE fee == outcome.fee
           change == [Remaining EXCEPT ![Ada] = Change(fee)]
<1>1. /\ fee \in Fees /\ ~Insufficient(fee)
      /\ Change(fee) \in Nat
      /\ receivers = Outgoing /\ receivers \in Seq(NatValue)
      /\ change \in NatValue /\ change[Ada] = Change(fee)
      /\ \A t \in Token \ {Ada} : change[t] = Held(t) - Paid[t]
      /\ Change(fee) = 0 => outcome.outputs = receivers
      /\ Change(fee) # 0 => outcome.outputs = Append(receivers, change)
  BY BuiltOutputs
<1>2. Reckoned /\ call \in Calls /\ Ada \in Token
  BY Constants DEF Built, Reckoned, Inv
<1> HIDE DEF change, fee
<1>3. \A k \in DOMAIN receivers : Fine(receivers[k])
  BY <1>1, <1>2, OutgoingFits
<1>4. CASE Change(fee) = 0
  BY <1>1, <1>3, <1>4
<1>5. CASE Change(fee) # 0
  <2> DEFINE rest == SubtractSumMaps(SumOfValues(wallet), Paid)
  <2>1. Tokens(change) \subseteq Tokens(rest)
    <3>1. \A t \in Token : /\ Held(t) \in Nat /\ Paid[t] \in Nat /\ Held(t) <= Total(wallet, t)
                           /\ SumOfValues(wallet)[t] = Total(wallet, t) /\ Total(wallet, t) \in Nat
      BY <1>2, Reckoning
    <3>2. \A t \in Token \ {Ada} : change[t] > 0 => rest[t] > 0
      BY <1>1, <3>1 DEF SubtractSumMaps
    <3> QED
      BY <3>2 DEF Tokens
  <2> HIDE DEF rest
  <2>2. /\ MinRequiredUtxo(change) \in Nat /\ MinRequiredUtxo(rest) \in Nat
        /\ MinRequiredUtxo(change) <= MinRequiredUtxo(rest)
    BY <2>1, MinUtxoGrows
  <2>3. LET least == ChangeMinUtxo(wallet)
        IN  least \in Nat /\ least >= MinUtxoValue /\ least >= MinRequiredUtxo(rest)
    BY ChangeMinType DEF rest
  <2>4. ~(Change(fee) < ChangeMinUtxo(wallet))
    BY <1>1, <1>5 DEF Insufficient
  <2>5. Fine(change)
    BY <1>1, <2>2, <2>3, <2>4, Constants
  <2> HIDE DEF Fine
  <2>6. /\ outcome.outputs = Append(receivers, change)
        /\ \A k \in DOMAIN outcome.outputs : outcome.outputs[k] = change
                                            \/ (k \in DOMAIN receivers /\ outcome.outputs[k] = receivers[k])
    BY <1>1, <1>5
  <2> QED
    BY <1>3, <2>5, <2>6
<1> QED
  BY <1>4, <1>5

\* The first output is the one that the metadata speaks of.
LEMMA MetadataIfInv == Inv /\ SumsFit => MetadataIsPaid
<1> SUFFICES ASSUME Inv, SumsFit, Built, Bridging
             PROVE  /\ metadata.amounts = [k \in DOMAIN call.receivers |-> call.receivers[k][Ada]]
                    /\ outcome.outputs[1][Ada] = Total(call.receivers, Ada) + metadata.bridgingFee
                    /\ metadata.bridgingFee >= MinBridgingFeeAmount
  BY DEF MetadataIsPaid
<1> DEFINE fee == outcome.fee
           change == [Remaining EXCEPT ![Ada] = Change(fee)]
<1>1. /\ call \in Calls /\ metadata = BridgeMetadata /\ ~BelowMinFee
  BY DEF Inv, Built, Reckoned, OutputsPrepared
<1>2. /\ OutputLovelace = Total(call.receivers, Ada) + BridgingFee
      /\ OutputLovelace \in Nat /\ BridgingFee \in Nat /\ BridgingFee >= call.bridgingFee
  BY <1>1, BridgingOutput
<1>3. /\ receivers = <<OnlyAda(OutputLovelace)>> /\ receivers \in Seq(NatValue)
      /\ change \in NatValue
      /\ outcome.outputs = receivers \/ outcome.outputs = Append(receivers, change)
  BY BuiltOutputs DEF Outgoing
<1> HIDE DEF change
<1>4. outcome.outputs[1] = OnlyAda(OutputLovelace)
  BY <1>3
<1>5. OnlyAda(OutputLovelace)[Ada] = OutputLovelace
  BY <1>2, OnlyAdaType
<1>6. call.bridgingFee >= MinBridgingFeeAmount
  BY <1>1, Constants DEF BelowMinFee
<1> QED
  <2>1. metadata.bridgingFee = BridgingFee
        /\ metadata.amounts = [k \in DOMAIN call.receivers |-> call.receivers[k][Ada]]
    BY <1>1 DEF BridgeMetadata
  <2>2. BridgingFee >= MinBridgingFeeAmount
    BY <1>1, <1>2, <1>6, Constants
  <2> QED
    BY <1>2, <1>4, <1>5, <2>1, <2>2

\* A transaction that sendtx builds is balanced, whatever fee cardano-cli
\* calculates, and loses no token when the fee is one that was reserved.
THEOREM ValueConservedCorrect == SumsFit => (Spec => []ValueConserved)
<1> SUFFICES ASSUME SumsFit PROVE Spec => []ValueConserved
  OBVIOUS
<1>1. Inv => ValueConserved
  BY ConservedIfInv
<1> QED
  BY <1>1, InvCorrect, PTL

\* A call whose inputs were found does not fail on a fee up to PotentialFee.
THEOREM PotentialFeeCorrect == SumsFit => (Spec => []PotentialFeeSuffices)
<1> SUFFICES ASSUME SumsFit PROVE Spec => []PotentialFeeSuffices
  OBVIOUS
<1>1. Inv => PotentialFeeSuffices
  BY FeeSufficesIfInv
<1> QED
  BY <1>1, InvCorrect, PTL

\* Every output of a transaction that sendtx builds has the ada that its own
\* tokens need.
THEOREM MinUtxoCorrect == SumsFit => (Spec => []OutputsHaveMinUtxo)
<1> SUFFICES ASSUME SumsFit PROVE Spec => []OutputsHaveMinUtxo
  OBVIOUS
<1>1. Inv => OutputsHaveMinUtxo
  BY MinUtxoIfInv
<1> QED
  BY <1>1, InvCorrect, PTL

\* A bridging transaction pays what its metadata tells the bridge to pay out.
THEOREM MetadataCorrect == SumsFit => (Spec => []MetadataIsPaid)
<1> SUFFICES ASSUME SumsFit PROVE Spec => []MetadataIsPaid
  OBVIOUS
<1>1. Inv => MetadataIsPaid
  BY MetadataIfInv
<1> QED
  BY <1>1, InvCorrect, PTL

-----------------------------------------------------------------------------
(* TxBuilder: policy scripts *)

\* What holds of a policy script when it holds of its parts holds of all scripts.
LEMMA ScriptInduction ==
  ASSUME NEW D,
         \A ps \in Script : (\A k \in DOMAIN ps.scripts : ps.scripts[k] \in D) => ps \in D
  PROVE  Script \subseteq D
<1> SUFFICES ASSUME NEW z \in Script, z \notin D PROVE FALSE
  OBVIOUS
<1> DEFINE N == {Height[ps] : ps \in Script \ D}
<1>1. N \in SUBSET Nat /\ N # {}
  BY TxBuilderAssumption
<1>2. PICK n \in N : \A m \in N : n <= m
  BY <1>1, LeastNatural
<1>3. PICK ps \in Script \ D : n = Height[ps]
  BY <1>2
<1>4. PICK k \in DOMAIN ps.scripts : ps.scripts[k] \notin D
  BY <1>3
<1>5. /\ ps.scripts[k] \in Script
      /\ Height[ps.scripts[k]] \in Nat /\ Height[ps] \in Nat /\ Height[ps.scripts[k]] < Height[ps]
  <2>1. ps.scripts \in Seq(Script)
    BY <1>3, TxBuilderAssumption
  <2>2. ps.scripts[k] \in Script
    BY <1>4, <2>1, ElementOfSeq, LenProperties
  <2> QED
    BY <1>3, <2>2, TxBuilderAssumption
<1>6. Height[ps] <= Height[ps.scripts[k]]
  BY <1>2, <1>3, <1>4, <1>5
<1> QED
  BY <1>5, <1>6

\* The values of a function at the parts of a script.
OfParts(f, ps) == [k \in DOMAIN ps.scripts |-> f[ps.scripts[k]]]

\* The parts of a policy script are scripts, and there are finitely many.
LEMMA PartsAreScripts ==
  ASSUME NEW ps \in Script
  PROVE  /\ Len(ps.scripts) \in Nat /\ DOMAIN ps.scripts = 1..Len(ps.scripts)
         /\ IsFiniteSet(DOMAIN ps.scripts)
         /\ \A k \in DOMAIN ps.scripts : ps.scripts[k] \in Script
<1>1. ps.scripts \in Seq(Script)
  BY TxBuilderAssumption
<1>2. Len(ps.scripts) \in Nat /\ DOMAIN ps.scripts = 1..Len(ps.scripts)
  BY <1>1, LenProperties
<1>3. IsFiniteSet(1..Len(ps.scripts))
  BY <1>2, FS_Interval
<1> QED
  BY <1>1, <1>2, <1>3, ElementOfSeq

\* The values at the parts of a script are a sequence.
LEMMA OfPartsType ==
  ASSUME NEW V, NEW f, NEW ps \in Script, \A k \in DOMAIN ps.scripts : f[ps.scripts[k]] \in V
  PROVE  /\ OfParts(f, ps) \in Seq(V) /\ DOMAIN OfParts(f, ps) = DOMAIN ps.scripts
         /\ \A k \in DOMAIN ps.scripts : OfParts(f, ps)[k] = f[ps.scripts[k]]
<1>1. OfParts(f, ps) \in [1..Len(ps.scripts) -> V]
  BY PartsAreScripts DEF OfParts
<1> QED
  BY <1>1, PartsAreScripts, SeqDef DEF OfParts

\* A function of policy scripts may be defined by what it is for a script whose
\* parts have given values.
LEMMA ScriptRecursion ==
  ASSUME NEW V, NEW R \in [Script \X Seq(V) -> V]
  PROVE  \E f \in [Script -> V] : \A ps \in Script : f[ps] = R[<<ps, OfParts(f, ps)>>]
<1> DEFINE Below(n) == {ps \in Script : Height[ps] < n}
           Is(g, n) == g \in [Below(n) -> V] /\ \A ps \in Below(n) : g[ps] = R[<<ps, OfParts(g, ps)>>]
           N == {n \in Nat : ~\E g : Is(g, n)}
<1>1. \A ps \in Script : /\ Height[ps] \in Nat
                         /\ \A k \in DOMAIN ps.scripts :
                              ps.scripts[k] \in Script /\ Height[ps.scripts[k]] \in Nat
                                /\ Height[ps.scripts[k]] < Height[ps]
  BY PartsAreScripts, TxBuilderAssumption
<1>3. 0 \notin N
  <2>1. Below(0) = {}
    BY <1>1
  <2>2. Is([ps \in Below(0) |-> 0], 0)
    BY <2>1
  <2> HIDE DEF Is
  <2> QED
    BY <2>2
<1>4. ASSUME NEW n \in Nat, NEW g, Is(g, n) PROVE n + 1 \notin N
  <2> DEFINE h == [ps \in Below(n + 1) |-> R[<<ps, OfParts(g, ps)>>]]
  <2>1. ASSUME NEW ps \in Below(n + 1), NEW k \in DOMAIN ps.scripts
        PROVE  /\ ps.scripts[k] \in Below(n) /\ ps.scripts[k] \in Below(n + 1)
               /\ g[ps.scripts[k]] \in V /\ h[ps.scripts[k]] = g[ps.scripts[k]]
    <3>1. ps.scripts[k] \in Below(n) /\ ps.scripts[k] \in Below(n + 1)
      BY <1>1, <2>1
    <3>2. g[ps.scripts[k]] \in V /\ g[ps.scripts[k]] = R[<<ps.scripts[k], OfParts(g, ps.scripts[k])>>]
      BY <1>4, <3>1
    <3> QED
      BY <3>1, <3>2
  <2>2. ASSUME NEW ps \in Below(n + 1) PROVE h[ps] \in V /\ h[ps] = R[<<ps, OfParts(h, ps)>>]
    <3>1. OfParts(g, ps) \in Seq(V)
      BY <2>1, OfPartsType
    <3>2. OfParts(h, ps) = OfParts(g, ps)
      BY <2>1 DEF OfParts
    <3> QED
      BY <3>1, <3>2
  <2>3. Is(h, n + 1)
    <3> QED
      BY <2>2
  <2> HIDE DEF Is
  <2> QED
    BY <2>3
<1>5. N = {}
  <2> SUFFICES ASSUME N # {} PROVE FALSE
    OBVIOUS
  <2>1. PICK n \in N : \A m \in N : n <= m
    BY LeastNatural
  <2> HIDE DEF Is
  <2>2. n # 0 /\ n - 1 \in Nat /\ (n - 1) + 1 = n
    BY <1>3
  <2>3. n - 1 \notin N
    BY <2>1, <2>2
  <2> QED
    BY <1>4, <2>1, <2>2, <2>3
<1> DEFINE G(n) == CHOOSE g : Is(g, n)
           f == [ps \in Script |-> G(Height[ps] + 1)[ps]]
<1>6. \A n \in Nat : Is(G(n), n)
  <2> HIDE DEF Is
  <2> QED
    BY <1>5
<1>7. ASSUME NEW n \in Nat, NEW m \in Nat, n <= m
      PROVE  \A ps \in Below(n) : G(n)[ps] = G(m)[ps]
  <2> DEFINE D == {ps \in Script : ps \in Below(n) => G(n)[ps] = G(m)[ps]}
  <2>1. ASSUME NEW ps \in Script, \A k \in DOMAIN ps.scripts : ps.scripts[k] \in D, ps \in Below(n)
        PROVE  G(n)[ps] = G(m)[ps]
    <3> HIDE DEF G
    <3>1. \A k \in DOMAIN ps.scripts : ps.scripts[k] \in Below(n)
      BY <1>1, <2>1
    <3>2. OfParts(G(n), ps) = OfParts(G(m), ps)
      BY <2>1, <3>1 DEF OfParts
    <3>3. ps \in Below(m)
      BY <1>1, <1>7, <2>1
    <3> HIDE DEF Below, D
    <3>4. G(n)[ps] = R[<<ps, OfParts(G(n), ps)>>] /\ G(m)[ps] = R[<<ps, OfParts(G(m), ps)>>]
      BY <1>6, <2>1, <3>3
    <3> QED
      BY <3>2, <3>4
  <2>2. Script \subseteq D
    <3> HIDE DEF G
    <3>1. \A ps \in Script : (\A k \in DOMAIN ps.scripts : ps.scripts[k] \in D) => ps \in D
      BY <2>1
    <3> HIDE DEF D
    <3> QED
      BY <3>1, ScriptInduction
  <2> QED
    BY <2>2
<1> HIDE DEF G
<1>8. ASSUME NEW ps \in Script PROVE f[ps] \in V /\ f[ps] = R[<<ps, OfParts(f, ps)>>]
  <2> DEFINE n == Height[ps] + 1
  <2>1. n \in Nat /\ ps \in Below(n)
    BY <1>1
  <2>2. ASSUME NEW k \in DOMAIN ps.scripts PROVE f[ps.scripts[k]] = G(n)[ps.scripts[k]]
    <3> DEFINE m == Height[ps.scripts[k]] + 1
    <3>1. ps.scripts[k] \in Script /\ m \in Nat /\ n \in Nat /\ m <= n /\ ps.scripts[k] \in Below(m)
      BY <1>1
    <3>2. f[ps.scripts[k]] = G(m)[ps.scripts[k]]
      BY <3>1
    <3> HIDE DEF m, n, f
    <3> QED
      BY <1>7, <3>1, <3>2
  <2>3. OfParts(f, ps) = OfParts(G(n), ps)
    <3> HIDE DEF f, n
    <3> QED
      BY <2>2 DEF OfParts
  <2>4. f[ps] = G(n)[ps]
    OBVIOUS
  <2> HIDE DEF f, n
  <2> QED
    BY <1>6, <2>1, <2>3, <2>4
<1>9. f \in [Script -> V]
  <2>1. \A ps \in Script : f[ps] \in V
    BY <1>8
  <2> QED
    BY <2>1
<1> QED
  <2> HIDE DEF f
  <2> QED
    BY <1>8, <1>9

\* A finite set of naturals that is not empty has a greatest element.
LEMMA GreatestNatural ==
  ASSUME NEW T \in SUBSET Nat, IsFiniteSet(T), T # {}
  PROVE  Max(T) \in T /\ \A y \in T : y <= Max(T)
<1> DEFINE D == {U \in SUBSET T : U = {} \/ \E x \in U : \A y \in U : x >= y}
<1>1. ASSUME NEW U \in SUBSET T, U # {}, \A x \in U : U \ {x} \in D PROVE U \in D
  <2>1. PICK z \in U : TRUE
    BY <1>1
  <2>2. CASE U \ {z} = {}
    BY <2>1, <2>2
  <2>3. CASE U \ {z} # {}
    <3>1. PICK x \in U \ {z} : \A y \in U \ {z} : x >= y
      BY <1>1, <2>1, <2>3
    <3>2. CASE x >= z
      BY <1>1, <3>1, <3>2
    <3>3. CASE z >= x
      <4>1. \A y \in U : z >= y
        BY <1>1, <2>1, <3>1, <3>3
      <4> QED
        BY <2>1, <4>1
    <3> QED
      BY <2>1, <3>1, <3>2, <3>3
  <2> QED
    BY <2>2, <2>3
<1>2. T \in D
  <2>1. {} \in D
    OBVIOUS
  <2> HIDE DEF D
  <2> QED
    BY <1>1, <2>1, SubsetInduction
<1>3. \E x \in T : \A y \in T : x >= y
  BY <1>2
<1>4. Max(T) \in T /\ \A y \in T : Max(T) >= y
  BY <1>3 DEF Max
<1> QED
  BY <1>4

\* What the counts of the parts of a script add up to, and the largest of them.
LEMMA CountsOfParts ==
  ASSUME NEW s \in Seq(Nat)
  PROVE  /\ SumFunction(s) \in Nat
         /\ Max(Range(s) \cup {0}) \in Nat
         /\ \A k \in DOMAIN s : s[k] <= Max(Range(s) \cup {0})
<1>1. Len(s) \in Nat /\ DOMAIN s = 1..Len(s) /\ \A k \in DOMAIN s : s[k] \in Nat
  BY LenProperties, ElementOfSeq
<1>2. IsFiniteSet(DOMAIN s)
  BY <1>1, FS_Interval
<1>3. SumFunction(s) \in Nat
  BY <1>1, <1>2, SumOfNats DEF SumFunction
<1>4. IsFiniteSet(Range(s)) /\ Range(s) \in SUBSET Nat
  <2> DEFINE R == {s[k] : k \in DOMAIN s}
  <2>1. s \in Surjection(DOMAIN s, R)
    BY DEF Surjection
  <2>2. IsFiniteSet(R)
    BY <1>2, <2>1, FS_Surjection
  <2> QED
    BY <1>1, <2>2 DEF Range
<1> DEFINE T == Range(s) \cup {0}
<1>5. IsFiniteSet(T) /\ T \in SUBSET Nat /\ T # {}
  BY <1>4, FS_AddElement
<1>6. Max(T) \in T /\ \A y \in T : y <= Max(T)
  <2> HIDE DEF T
  <2> QED
    BY <1>5, GreatestNatural
<1> QED
  BY <1>3, <1>5, <1>6 DEF Range

\* The count of a script is made from those of its parts.
LEMMA CountOfScript ==
  \A ps \in Script :
    /\ GetCount[ps] \in Nat
    /\ GetCount[ps] = CASE ps.type = "sig" -> 1
                        [] ps.type = "any" -> Max(Range(OfParts(GetCount, ps)) \cup {0})
                        [] ps.type \in {"all", "atLeast"} -> SumFunction(OfParts(GetCount, ps))
                        [] OTHER -> 0
<1> DEFINE Counted(ps, counts) == CASE ps.type = "sig" -> 1
                                    [] ps.type = "any" -> Max(Range(counts) \cup {0})
                                    [] ps.type \in {"all", "atLeast"} -> SumFunction(counts)
                                    [] OTHER -> 0
           R == [x \in Script \X Seq(Nat) |-> Counted(x[1], x[2])]
<1>1. ASSUME NEW ps \in Script, NEW s \in Seq(Nat) PROVE Counted(ps, s) \in Nat
  <2>1. SumFunction(s) \in Nat /\ Max(Range(s) \cup {0}) \in Nat
    BY CountsOfParts
  <2> QED
    BY <2>1
<1> HIDE DEF Counted
<1>2. R \in [Script \X Seq(Nat) -> Nat]
  BY <1>1
<1> HIDE DEF R
<1>3. PICK f \in [Script -> Nat] : \A ps \in Script : f[ps] = R[<<ps, OfParts(f, ps)>>]
  <2> DEFINE V == Nat
  <2>1. R \in [Script \X Seq(V) -> V]
    BY <1>2
  <2> HIDE DEF V
  <2>2. \E f \in [Script -> V] : \A ps \in Script : f[ps] = R[<<ps, OfParts(f, ps)>>]
    BY <2>1, ScriptRecursion
  <2> QED
    BY <2>2 DEF V
<1>4. ASSUME NEW ps \in Script, NEW g \in [Script -> Nat] PROVE OfParts(g, ps) \in Seq(Nat)
  BY PartsAreScripts, OfPartsType
<1>5. f = [ps \in Script |-> Counted(ps, OfParts(f, ps))]
  <2>1. \A ps \in Script : f[ps] = Counted(ps, OfParts(f, ps))
    <3> SUFFICES ASSUME NEW ps \in Script PROVE f[ps] = Counted(ps, OfParts(f, ps))
      OBVIOUS
    <3>1. <<ps, OfParts(f, ps)>> \in Script \X Seq(Nat)
      BY <1>4
    <3> QED
      BY <1>3, <3>1 DEF R
  <2> QED
    BY <2>1
<1>6. GetCount = CHOOSE g : g = [ps \in Script |-> Counted(ps, OfParts(g, ps))]
  BY DEF GetCount, Counted, OfParts
<1>7. GetCount = [ps \in Script |-> Counted(ps, OfParts(GetCount, ps))]
  <2> QED
    BY <1>5, <1>6
<1>8. ASSUME NEW ps \in Script PROVE GetCount[ps] \in Nat
  <2> DEFINE D == {q \in Script : GetCount[q] \in Nat}
  <2>1. ASSUME NEW q \in Script, \A k \in DOMAIN q.scripts : q.scripts[k] \in D
        PROVE  GetCount[q] \in Nat
    <3>4. OfParts(GetCount, q) \in Seq(Nat)
      BY <2>1, OfPartsType
    <3>5. GetCount[q] = Counted(q, OfParts(GetCount, q))
      BY <1>7
    <3> QED
      BY <1>1, <3>4, <3>5
  <2>2. Script \subseteq D
    <3>1. \A q \in Script : (\A k \in DOMAIN q.scripts : q.scripts[k] \in D) => q \in D
      BY <2>1
    <3> HIDE DEF D
    <3> QED
      BY <3>1, ScriptInduction
  <2> QED
    BY <2>2
<1>9. GetCount \in [Script -> Nat]
  <2>1. GetCount = [ps \in Script |-> GetCount[ps]]
    <3> QED
      BY <1>7
  <2> QED
    BY <1>8, <2>1
<1>10. \A ps \in Script : GetCount[ps] = Counted(ps, OfParts(GetCount, ps))
  BY <1>7
<1> QED
  BY <1>9, <1>10 DEF Counted

\* The parts that keys satisfy, and what a script asks of them.
Good(ps, keys) == {k \in DOMAIN ps.scripts : keys \in Satisfying[ps.scripts[k]]}

Accepts(ps, keys, good) ==
  /\ ps.type = "sig" => ps.keyHash \in keys
  /\ ps.type = "any" => good # {}
  /\ ps.type = "all" => good = DOMAIN ps.scripts
  /\ ps.type = "atLeast" => Cardinality(good) >= ps.required

\* Which keys satisfy a script is made from which keys satisfy its parts.
LEMMA SatisfyingOfScript ==
  \A ps \in Script : Satisfying[ps] = {keys \in SUBSET Key : Accepts(ps, keys, Good(ps, keys))}
<1> DEFINE V == SUBSET SUBSET Key
           Chosen(ps, s, keys) == Accepts(ps, keys, {k \in DOMAIN ps.scripts : keys \in s[k]})
           R == [x \in Script \X Seq(V) |-> {keys \in SUBSET Key : Chosen(x[1], x[2], keys)}]
           Suffices(ps, f) == {keys \in SUBSET Key :
             Accepts(ps, keys, {k \in DOMAIN ps.scripts : keys \in f[ps.scripts[k]]})}
<1>1. R \in [Script \X Seq(V) -> V]
  <2> HIDE DEF Chosen
  <2> QED
    OBVIOUS
<1>2. PICK f \in [Script -> V] : \A ps \in Script : f[ps] = R[<<ps, OfParts(f, ps)>>]
  <2> HIDE DEF R, V
  <2> QED
    BY <1>1, ScriptRecursion
<1>3. f = [ps \in Script |-> Suffices(ps, f)]
  <2>1. ASSUME NEW ps \in Script PROVE f[ps] = Suffices(ps, f)
    <3>1. OfParts(f, ps) \in Seq(V)
      <4> HIDE DEF V
      <4> QED
        BY PartsAreScripts, OfPartsType
    <3>2. f[ps] = {keys \in SUBSET Key : Chosen(ps, OfParts(f, ps), keys)}
      <4> HIDE DEF Chosen, V
      <4> QED
        BY <1>2, <3>1
    <3>3. \A k \in DOMAIN ps.scripts : OfParts(f, ps)[k] = f[ps.scripts[k]]
      BY DEF OfParts
    <3>4. \A keys : {k \in DOMAIN ps.scripts : keys \in OfParts(f, ps)[k]}
                      = {k \in DOMAIN ps.scripts : keys \in f[ps.scripts[k]]}
      BY <3>3
    <3> QED
      BY <3>2, <3>4
  <2> HIDE DEF Suffices
  <2> QED
    BY <2>1
<1>4. Satisfying = CHOOSE g : g = [ps \in Script |-> Suffices(ps, g)]
  BY DEF Satisfying, Suffices, Accepts
<1> HIDE DEF Suffices
<1>5. Satisfying = [ps \in Script |-> Suffices(ps, Satisfying)]
  BY <1>3, <1>4
<1>6. \A ps \in Script : Satisfying[ps] = Suffices(ps, Satisfying)
  BY <1>5
<1> QED
  BY <1>6 DEF Suffices, Good

\* More keys satisfy what some of them do.
LEMMA SatisfyingGrows ==
  ASSUME NEW ps \in Script, NEW keys \in Satisfying[ps], NEW more \in SUBSET Key, keys \subseteq more
  PROVE  more \in Satisfying[ps]
<1> DEFINE D == {q \in Script : keys \in Satisfying[q] => more \in Satisfying[q]}
<1>1. ASSUME NEW q \in Script, \A k \in DOMAIN q.scripts : q.scripts[k] \in D, keys \in Satisfying[q]
      PROVE  more \in Satisfying[q]
  <2>1. Accepts(q, keys, Good(q, keys))
    BY <1>1, SatisfyingOfScript
  <2>2. Good(q, keys) \subseteq Good(q, more) /\ Good(q, more) \subseteq DOMAIN q.scripts
    BY <1>1 DEF Good
  <2>3. IsFiniteSet(DOMAIN q.scripts)
    BY PartsAreScripts
  <2>4. /\ Cardinality(Good(q, keys)) <= Cardinality(Good(q, more))
        /\ Cardinality(Good(q, keys)) \in Nat /\ Cardinality(Good(q, more)) \in Nat
    <3>1. IsFiniteSet(Good(q, more))
      BY <2>2, <2>3, FS_Subset
    <3> QED
      BY <2>2, <3>1, FS_Subset, FS_CardinalityType
  <2>5. q.required \in Int
    BY TxBuilderAssumption
  <2>6. Accepts(q, more, Good(q, more))
    BY <2>1, <2>2, <2>4, <2>5 DEF Accepts
  <2> QED
    BY <2>6, SatisfyingOfScript
<1>2. \A q \in Script : (\A k \in DOMAIN q.scripts : q.scripts[k] \in D) => q \in D
  BY <1>1
<1>3. Script \subseteq D
  <2> HIDE DEF D
  <2> QED
    BY <1>2, ScriptInduction
<1> QED
  BY <1>3

\* The union of finitely many finite sets has no more members than they have together.
LEMMA UnionIsBounded ==
  ASSUME NEW S, IsFiniteSet(S), NEW c, NEW K,
         \A x \in S : /\ c[x] \in Nat
                      /\ IsFiniteSet(K[x]) /\ Cardinality(K[x]) <= c[x]
  PROVE  /\ IsFiniteSet(UNION {K[x] : x \in S})
         /\ Cardinality(UNION {K[x] : x \in S}) <= SumFunctionOnSet(c, S)
<1> DEFINE All(T) == UNION {K[x] : x \in T}
           D == {T \in SUBSET S : IsFiniteSet(All(T)) /\ Cardinality(All(T)) <= SumFunctionOnSet(c, T)}
<1>1. {} \in D
  <2>1. All({}) = {}
    OBVIOUS
  <2>2. SumFunctionOnSet(c, {}) = 0
    BY SumPicked, FS_EmptySet
  <2>3. IsFiniteSet({}) /\ Cardinality({}) = 0
    BY FS_EmptySet
  <2> HIDE DEF All
  <2> QED
    BY <2>1, <2>2, <2>3
<1>2. ASSUME NEW T \in SUBSET S, T # {}, \A x \in T : T \ {x} \in D PROVE T \in D
  <2>1. PICK x \in T : TRUE
    BY <1>2
  <2>2. SumFunctionOnSet(c, T) = c[x] + SumFunctionOnSet(c, T \ {x}) /\ c[x] \in Nat
        /\ SumFunctionOnSet(c, T \ {x}) \in Nat
    <3>1. IsFiniteSet(T)
      BY FS_Subset
    <3>2. SumFunctionOnSet(c, T \ {x}) \in Nat
      BY SumOfNats
    <3>3. \A y \in T : c[y] \in Int
      OBVIOUS
    <3> QED
      BY <2>1, <3>1, <3>2, <3>3, SumOfInts
  <2>3. All(T) = K[x] \cup All(T \ {x})
    BY <2>1
  <2>4. IsFiniteSet(All(T \ {x})) /\ Cardinality(All(T \ {x})) <= SumFunctionOnSet(c, T \ {x})
    BY <1>2, <2>1
  <2>5. IsFiniteSet(K[x]) /\ Cardinality(K[x]) <= c[x]
    BY <2>1
  <2> HIDE DEF All
  <2>6. IsFiniteSet(All(T)) /\ Cardinality(All(T)) <= Cardinality(K[x]) + Cardinality(All(T \ {x}))
    <3>1. /\ IsFiniteSet(K[x] \cup All(T \ {x}))
          /\ Cardinality(K[x] \cup All(T \ {x})) =
               Cardinality(K[x]) + Cardinality(All(T \ {x})) - Cardinality(K[x] \cap All(T \ {x}))
      BY <2>4, <2>5, FS_Union
    <3>2. Cardinality(K[x] \cap All(T \ {x})) \in Nat
      BY <2>4, <2>5, FS_Intersection, FS_CardinalityType
    <3>3. Cardinality(K[x]) \in Nat /\ Cardinality(All(T \ {x})) \in Nat
      BY <2>4, <2>5, FS_CardinalityType
    <3> QED
      BY <2>3, <3>1, <3>2, <3>3
  <2>7. Cardinality(K[x]) \in Nat /\ Cardinality(All(T \ {x})) \in Nat /\ Cardinality(All(T)) \in Nat
    BY <2>4, <2>5, <2>6, FS_CardinalityType
  <2> QED
    BY <2>2, <2>4, <2>5, <2>6, <2>7
<1>3. S \in D
  <2> HIDE DEF D
  <2> QED
    BY <1>1, <1>2, SubsetInduction
<1> QED
  BY <1>3

\* As many keys as GetCount says are enough for a script that any keys satisfy.
Enough(ps, keys) == keys \in Satisfying[ps] /\ IsFiniteSet(keys) /\ Cardinality(keys) <= GetCount[ps]

\* When any keys satisfy a script, as few as it counts do.
LEMMA FewKeysSuffice ==
  ASSUME NEW ps \in Script, Satisfying[ps] # {}
  PROVE  \E keys : Enough(ps, keys)
<1> DEFINE D == {q \in Script : Satisfying[q] # {} => \E keys : Enough(q, keys)}
<1>1. ASSUME NEW q \in Script, \A k \in DOMAIN q.scripts : q.scripts[k] \in D, NEW some \in Satisfying[q]
      PROVE  \E keys : Enough(q, keys)
  <2> DEFINE S == DOMAIN q.scripts
             c == OfParts(GetCount, q)
             K == [k \in S |-> IF Satisfying[q.scripts[k]] = {} THEN {}
                               ELSE CHOOSE keys : Enough(q.scripts[k], keys)]
             U == UNION {K[k] : k \in S}
  <2>1. IsFiniteSet(S) /\ \A k \in S : q.scripts[k] \in Script
    BY PartsAreScripts
  <2>2. /\ c \in Seq(Nat) /\ DOMAIN c = S
        /\ \A k \in S : c[k] = GetCount[q.scripts[k]] /\ c[k] \in Nat
    <3> DEFINE V == Nat
    <3>1. \A k \in S : q.scripts[k] \in Script /\ GetCount[q.scripts[k]] \in V
      BY <2>1, CountOfScript
    <3>2. OfParts(GetCount, q) \in Seq(V)
      <4> HIDE DEF V, K, U
      <4> QED
        BY <3>1, OfPartsType
    <3>3. c \in Seq(V) /\ DOMAIN c = S /\ \A k \in S : c[k] = GetCount[q.scripts[k]]
      BY <3>2 DEF OfParts
    <3> HIDE DEF V, c
    <3> QED
      BY <3>1, <3>3 DEF V
  <2> HIDE DEF c
  <2>3. ASSUME NEW k \in S, Satisfying[q.scripts[k]] # {} PROVE Enough(q.scripts[k], K[k])
    BY <1>1, <2>3
  <2>4. \A k \in S : c[k] \in Nat /\ IsFiniteSet(K[k]) /\ Cardinality(K[k]) <= c[k]
    <3> SUFFICES ASSUME NEW k \in S PROVE IsFiniteSet(K[k]) /\ Cardinality(K[k]) <= c[k]
      BY <2>2
    <3>1. CASE Satisfying[q.scripts[k]] = {}
      <4>1. K[k] = {}
        BY <3>1
      <4> HIDE DEF K
      <4> QED
        BY <2>2, <4>1, FS_EmptySet
    <3>2. CASE Satisfying[q.scripts[k]] # {}
      BY <2>2, <2>3, <3>2 DEF Enough
    <3> QED
      BY <3>1, <3>2
  <2>5. \A k \in S : K[k] \in SUBSET Key
    <3> SUFFICES ASSUME NEW k \in S PROVE K[k] \in SUBSET Key
      OBVIOUS
    <3>1. CASE Satisfying[q.scripts[k]] = {}
      BY <3>1
    <3>2. CASE Satisfying[q.scripts[k]] # {}
      <4>1. K[k] \in Satisfying[q.scripts[k]]
        BY <2>3, <3>2 DEF Enough
      <4> HIDE DEF K
      <4> QED
        BY <2>1, <4>1, SatisfyingOfScript
    <3> QED
      BY <3>1, <3>2
  <2> HIDE DEF K
  <2>6. IsFiniteSet(U) /\ Cardinality(U) <= SumFunction(c) /\ U \in SUBSET Key
    <3>1. IsFiniteSet(U) /\ Cardinality(U) <= SumFunctionOnSet(c, S)
      BY <2>1, <2>4, UnionIsBounded
    <3> QED
      BY <2>2, <2>5, <3>1 DEF SumFunction
  <2>7. some \in SUBSET Key /\ Accepts(q, some, Good(q, some))
    BY SatisfyingOfScript
  <2>8. CASE q.type = "sig"
    <3>1. Accepts(q, {q.keyHash}, Good(q, {q.keyHash})) /\ {q.keyHash} \in SUBSET Key
      BY <2>7, <2>8 DEF Accepts
    <3>2. IsFiniteSet({q.keyHash}) /\ Cardinality({q.keyHash}) = 1
      BY FS_Singleton
    <3>3. GetCount[q] = 1
      BY <2>8, CountOfScript
    <3> QED
      BY <3>1, <3>2, <3>3, SatisfyingOfScript DEF Enough
  <2>9. CASE q.type = "any"
    <3>1. PICK k \in S : some \in Satisfying[q.scripts[k]]
      BY <2>7, <2>9 DEF Accepts, Good
    <3>2. Enough(q.scripts[k], K[k])
      BY <2>3, <3>1
    <3>3. k \in Good(q, K[k])
      BY <3>2 DEF Enough, Good
    <3>4. Accepts(q, K[k], Good(q, K[k]))
      BY <2>9, <3>3 DEF Accepts
    <3>5. K[k] \in Satisfying[q]
      BY <2>5, <3>4, SatisfyingOfScript
    <3>6. GetCount[q] = Max(Range(c) \cup {0})
      BY <2>9, CountOfScript DEF c
    <3>7. c[k] <= GetCount[q] /\ GetCount[q] \in Nat
      BY <2>2, <3>6, CountsOfParts
    <3>8. Cardinality(K[k]) <= c[k] /\ c[k] \in Nat /\ IsFiniteSet(K[k]) /\ Cardinality(K[k]) \in Nat
      BY <2>4, FS_CardinalityType
    <3> QED
      BY <3>5, <3>7, <3>8 DEF Enough
  <2>10. CASE q.type \in {"all", "atLeast"}
    <3>1. ASSUME NEW k \in S, some \in Satisfying[q.scripts[k]] PROVE k \in Good(q, U)
      <4>1. K[k] \in Satisfying[q.scripts[k]]
        BY <2>3, <3>1 DEF Enough
      <4>2. K[k] \subseteq U
        OBVIOUS
      <4> HIDE DEF U
      <4>3. U \in Satisfying[q.scripts[k]]
        BY <2>1, <2>6, <4>1, <4>2, SatisfyingGrows
      <4> QED
        BY <4>3 DEF Good
    <3> HIDE DEF U
    <3>2. Good(q, some) \subseteq Good(q, U) /\ Good(q, U) \subseteq S
      BY <3>1 DEF Good
    <3>3. /\ Cardinality(Good(q, some)) <= Cardinality(Good(q, U))
          /\ Cardinality(Good(q, some)) \in Nat /\ Cardinality(Good(q, U)) \in Nat
      <4>1. IsFiniteSet(Good(q, U))
        BY <2>1, <3>2, FS_Subset
      <4> QED
        BY <3>2, <4>1, FS_Subset, FS_CardinalityType
    <3>4. q.required \in Int
      BY TxBuilderAssumption
    <3>5. Accepts(q, U, Good(q, U))
      BY <2>7, <2>10, <3>2, <3>3, <3>4 DEF Accepts
    <3>6. GetCount[q] = SumFunction(c)
      BY <2>10, CountOfScript DEF c
    <3> QED
      BY <2>6, <3>5, <3>6, SatisfyingOfScript DEF Enough
  <2>11. CASE q.type \notin {"sig", "any", "all", "atLeast"}
    <3>1. Accepts(q, {}, Good(q, {}))
      BY <2>11 DEF Accepts
    <3>2. GetCount[q] = 0
      BY <2>11, CountOfScript
    <3>3. IsFiniteSet({}) /\ Cardinality({}) = 0
      BY FS_EmptySet
    <3> QED
      BY <3>1, <3>2, <3>3, SatisfyingOfScript DEF Enough
  <2> QED
    BY <2>8, <2>9, <2>10, <2>11
<1>2. \A q \in Script : (\A k \in DOMAIN q.scripts : q.scripts[k] \in D) => q \in D
  BY <1>1
<1>3. Script \subseteq D
  <2> HIDE DEF D
  <2> QED
    BY <1>2, ScriptInduction
<1> QED
  BY <1>3

-----------------------------------------------------------------------------
(* The fee *)

KeysOf(p) == CHOOSE keys : Enough(ScriptOf[p], keys)

\* The keys chosen for a script satisfy it and are no more than it counts.
LEMMA KeysOfSuffice ==
  ASSUME NEW p \in Pointer, Satisfying[ScriptOf[p]] # {}
  PROVE  /\ KeysOf(p) \in SUBSET Key /\ IsFiniteSet(KeysOf(p))
         /\ KeysOf(p) \in Satisfying[ScriptOf[p]]
         /\ GetCount[ScriptOf[p]] \in Nat /\ Cardinality(KeysOf(p)) <= GetCount[ScriptOf[p]]
<1>1. ScriptOf[p] \in Script
  BY TxBuilderAssumption
<1>2. Enough(ScriptOf[p], KeysOf(p))
  BY <1>1, FewKeysSuffice DEF KeysOf
<1> QED
  BY <1>1, <1>2, CountOfScript, SatisfyingOfScript DEF Enough

\* What the type invariant says of the parts that need witnesses.
LEMMA WitnessParts ==
  ASSUME BuilderTypeOK
  PROVE  /\ IsFiniteSet(DOMAIN b.inputs) /\ IsFiniteSet(DOMAIN b.certificates)
         /\ DOMAIN b.certificates = 1..Len(b.certificates) /\ Len(b.certificates) \in Nat
         /\ \A i \in DOMAIN b.inputs :
              OwnerOf[b.inputs[i].txInput] \in Key /\ b.inputs[i].policyScript \in Pointer \cup {Nil}
         /\ \A i \in DOMAIN b.certificates :
              /\ b.certificates[i].certificate # Nil
              /\ b.certificates[i].policyScript \in Pointer \cup {Nil}
         /\ b.withdrawalData.policyScript \in Pointer \cup {Nil}
<1>1. /\ b.inputs \in Seq([txInput : Input, policyScript : Pointer \cup {Nil}])
      /\ b.certificates \in Seq([certificate : {Certificate}, policyScript : Pointer \cup {Nil}])
      /\ b.withdrawalData.policyScript \in Pointer \cup {Nil}
  BY DEF BuilderTypeOK
<1>2. /\ DOMAIN b.inputs = 1..Len(b.inputs) /\ Len(b.inputs) \in Nat
      /\ DOMAIN b.certificates = 1..Len(b.certificates) /\ Len(b.certificates) \in Nat
  BY <1>1, LenProperties
<1>3. IsFiniteSet(1..Len(b.inputs)) /\ IsFiniteSet(1..Len(b.certificates))
  BY <1>2, FS_Interval
<1>4. /\ \A i \in DOMAIN b.inputs : b.inputs[i] \in [txInput : Input, policyScript : Pointer \cup {Nil}]
      /\ \A i \in DOMAIN b.certificates :
           b.certificates[i] \in [certificate : {Certificate}, policyScript : Pointer \cup {Nil}]
  BY <1>1, <1>2, ElementOfSeq
<1>5. /\ \A i \in DOMAIN b.inputs :
           b.inputs[i].txInput \in Input /\ b.inputs[i].policyScript \in Pointer \cup {Nil}
      /\ \A i \in DOMAIN b.certificates :
           /\ b.certificates[i].certificate = Certificate
           /\ b.certificates[i].policyScript \in Pointer \cup {Nil}
  BY <1>4
<1>6. OwnerOf \in [Input -> Key] /\ Nil # Certificate
  BY TxBuilderAssumption
<1> QED
  BY <1>1, <1>2, <1>3, <1>5, <1>6

\* What a part asks of the keys that sign: its script, or else its owner's key.
Needs(p, own, keys) == IF p = Nil THEN own \in keys ELSE keys \in Satisfying[ScriptOf[p]]

ChosenKeys(p, own) == IF p = Nil THEN {own} ELSE KeysOf(p)

WitnessCount(p) == IF p = Nil THEN 1 ELSE GetCount[ScriptOf[p]]

\* The keys chosen for a part are enough for it, alone or with more of them.
LEMMA ChosenKeysSuffice ==
  ASSUME NEW p \in Pointer \cup {Nil}, NEW own \in Key, p # Nil => Satisfying[ScriptOf[p]] # {}
  PROVE  /\ WitnessCount(p) \in Nat
         /\ ChosenKeys(p, own) \in SUBSET Key /\ IsFiniteSet(ChosenKeys(p, own))
         /\ Cardinality(ChosenKeys(p, own)) <= WitnessCount(p)
         /\ \A more \in SUBSET Key : ChosenKeys(p, own) \subseteq more => Needs(p, own, more)
<1>1. CASE p = Nil
  <2>1. ChosenKeys(p, own) = {own} /\ WitnessCount(p) = 1
    BY <1>1 DEF ChosenKeys, WitnessCount
  <2>2. IsFiniteSet({own}) /\ Cardinality({own}) = 1
    BY FS_Singleton
  <2> QED
    BY <1>1, <2>1, <2>2 DEF Needs
<1>2. CASE p # Nil
  <2>1. ChosenKeys(p, own) = KeysOf(p) /\ WitnessCount(p) = GetCount[ScriptOf[p]] /\ p \in Pointer
    BY <1>2 DEF ChosenKeys, WitnessCount
  <2>2. ScriptOf[p] \in Script
    BY <2>1, TxBuilderAssumption
  <2>3. /\ KeysOf(p) \in SUBSET Key /\ IsFiniteSet(KeysOf(p))
        /\ KeysOf(p) \in Satisfying[ScriptOf[p]]
        /\ GetCount[ScriptOf[p]] \in Nat /\ Cardinality(KeysOf(p)) <= GetCount[ScriptOf[p]]
    BY <1>2, <2>1, KeysOfSuffice
  <2>4. ASSUME NEW more \in SUBSET Key, KeysOf(p) \subseteq more PROVE Needs(p, own, more)
    <3>1. more \in Satisfying[ScriptOf[p]]
      BY <2>2, <2>3, <2>4, SatisfyingGrows
    <3> QED
      BY <1>2, <3>1 DEF Needs
  <2> QED
    BY <2>1, <2>3, <2>4
<1> QED
  BY <1>1, <1>2

\* Keys are enough for a part, and there are no more of them than a number.
AtMost(keys, n) == n \in Nat /\ keys \in SUBSET Key /\ IsFiniteSet(keys) /\ Cardinality(keys) <= n

\* Two bounds on keys bound them together.
LEMMA AtMostTogether ==
  ASSUME NEW x, NEW y, NEW m, NEW n, AtMost(x, m), AtMost(y, n)
  PROVE  AtMost(x \cup y, m + n)
<1>1. /\ IsFiniteSet(x \cup y)
      /\ Cardinality(x \cup y) = Cardinality(x) + Cardinality(y) - Cardinality(x \cap y)
  BY FS_Union DEF AtMost
<1>2. Cardinality(x) \in Nat /\ Cardinality(y) \in Nat /\ Cardinality(x \cap y) \in Nat
  BY FS_Intersection, FS_CardinalityType DEF AtMost
<1> QED
  BY <1>1, <1>2 DEF AtMost

\* Bounds on the keys of each part bound the keys of all of them.
LEMMA AtMostOfParts ==
  ASSUME NEW S, IsFiniteSet(S), NEW c, NEW K, DOMAIN c = S, \A x \in S : AtMost(K[x], c[x])
  PROVE  AtMost(UNION {K[x] : x \in S}, SumFunction(c))
<1>1. \A x \in S : c[x] \in Nat /\ IsFiniteSet(K[x]) /\ Cardinality(K[x]) <= c[x] /\ K[x] \in SUBSET Key
  BY DEF AtMost
<1>2. /\ IsFiniteSet(UNION {K[x] : x \in S})
      /\ Cardinality(UNION {K[x] : x \in S}) <= SumFunctionOnSet(c, S)
  BY <1>1, UnionIsBounded
<1>3. SumFunctionOnSet(c, S) \in Nat
  BY <1>1, SumOfNats
<1> QED
  BY <1>1, <1>2, <1>3 DEF AtMost, SumFunction

\* Every script that the transaction names can be satisfied.
ScriptsCanBeSatisfied == {} \notin {Satisfying[ps] : ps \in ScriptsToSatisfy}

\* The scripts of inputs, certificates and withdrawal are among those to satisfy.
LEMMA GivenScripts ==
  ASSUME BuilderTypeOK, ScriptsCanBeSatisfied
  PROVE  /\ \A i \in DOMAIN b.inputs : b.inputs[i].policyScript # Nil =>
              Satisfying[ScriptOf[b.inputs[i].policyScript]] # {}
         /\ \A i \in DOMAIN b.certificates : b.certificates[i].policyScript # Nil =>
              Satisfying[ScriptOf[b.certificates[i].policyScript]] # {}
         /\ b.withdrawalData.policyScript # Nil =>
              Satisfying[ScriptOf[b.withdrawalData.policyScript]] # {}
BY DEF ScriptsCanBeSatisfied, ScriptsToSatisfy

\* The keys that the inputs need.
InputCounts == [i \in DOMAIN b.inputs |-> InputWitnessCount(b.inputs[i])]

\* There are keys for all inputs, no more than InputWitnessCount adds up to.
LEMMA InputKeys ==
  ASSUME BuilderTypeOK, ScriptsCanBeSatisfied
  PROVE  \E keys : /\ AtMost(keys, SumFunction(InputCounts))
                   /\ \A more \in SUBSET Key : keys \subseteq more =>
                        \A i \in DOMAIN b.inputs :
                          Needs(b.inputs[i].policyScript, OwnerOf[b.inputs[i].txInput], more)
<1> DEFINE S == DOMAIN b.inputs
           K == [i \in S |-> ChosenKeys(b.inputs[i].policyScript, OwnerOf[b.inputs[i].txInput])]
           U == UNION {K[i] : i \in S}
<1>1. ASSUME NEW i \in S
      PROVE  /\ AtMost(K[i], InputCounts[i])
             /\ \A more \in SUBSET Key : K[i] \subseteq more =>
                  Needs(b.inputs[i].policyScript, OwnerOf[b.inputs[i].txInput], more)
  <2> DEFINE p == b.inputs[i].policyScript
             own == OwnerOf[b.inputs[i].txInput]
  <2>1. p \in Pointer \cup {Nil} /\ own \in Key
    BY WitnessParts
  <2>2. p # Nil => Satisfying[ScriptOf[p]] # {}
    BY GivenScripts
  <2>3. K[i] = ChosenKeys(p, own) /\ InputCounts[i] = WitnessCount(p)
    BY DEF InputCounts, InputWitnessCount, WitnessCount
  <2> HIDE DEF p, own, K
  <2>4. AtMost(K[i], InputCounts[i]) /\ \A more \in SUBSET Key : K[i] \subseteq more => Needs(p, own, more)
    BY <2>1, <2>2, <2>3, ChosenKeysSuffice DEF AtMost
  <2> QED
    BY <2>4 DEF p, own
<1> HIDE DEF K
<1>2. AtMost(U, SumFunction(InputCounts))
  <2>1. IsFiniteSet(S) /\ DOMAIN InputCounts = S
    BY WitnessParts DEF InputCounts
  <2> QED
    BY <1>1, <2>1, AtMostOfParts
<1>3. \A i \in S : K[i] \subseteq U
  OBVIOUS
<1> HIDE DEF U
<1> QED
  BY <1>1, <1>2, <1>3

\* The keys that the certificates need: those of a script are chosen for the first
\* certificate that has it, which is the one it is counted for.
Repeated(i) == \E j \in 1..i - 1 : /\ b.certificates[i].policyScript # Nil
                                   /\ b.certificates[j].policyScript = b.certificates[i].policyScript

CertificateCounts ==
  [i \in DOMAIN b.certificates |-> IF Repeated(i) THEN 0 ELSE CertificateWitnessCount(b.certificates[i])]

\* A certificate that is not counted shares its script with one that is.
LEMMA FirstOfItsScript ==
  ASSUME BuilderTypeOK, NEW i \in DOMAIN b.certificates
  PROVE  \E j \in DOMAIN b.certificates :
           ~Repeated(j) /\ b.certificates[j].policyScript = b.certificates[i].policyScript
<1> DEFINE N == {j \in DOMAIN b.certificates : b.certificates[j].policyScript = b.certificates[i].policyScript}
<1>1. DOMAIN b.certificates = 1..Len(b.certificates) /\ Len(b.certificates) \in Nat
  BY WitnessParts
<1>2. N \in SUBSET Nat /\ i \in N
  BY <1>1
<1>3. PICK j \in N : \A k \in N : j <= k
  BY <1>2, LeastNatural
<1>4. ASSUME NEW k \in 1..j - 1, b.certificates[k].policyScript = b.certificates[j].policyScript
      PROVE  FALSE
  <2>1. k \in N /\ k < j /\ j \in Nat /\ k \in Nat
    BY <1>1, <1>3, <1>4
  <2> QED
    BY <1>3, <2>1
<1> QED
  BY <1>3, <1>4 DEF Repeated

\* There are keys for all certificates, no more than are counted for them.
LEMMA CertificateKeys ==
  ASSUME BuilderTypeOK, ScriptsCanBeSatisfied
  PROVE  \E keys : /\ AtMost(keys, SumFunction(CertificateCounts))
                   /\ \A more \in SUBSET Key : keys \subseteq more =>
                        \A i \in DOMAIN b.certificates : Needs(b.certificates[i].policyScript, StakeKey, more)
<1> DEFINE S == DOMAIN b.certificates
           K == [i \in S |-> IF Repeated(i) THEN {}
                             ELSE ChosenKeys(b.certificates[i].policyScript, StakeKey)]
           U == UNION {K[i] : i \in S}
<1>1. ASSUME NEW i \in S
      PROVE  /\ AtMost(K[i], CertificateCounts[i])
             /\ ~Repeated(i) => \A more \in SUBSET Key : K[i] \subseteq more =>
                  Needs(b.certificates[i].policyScript, StakeKey, more)
  <2> DEFINE p == b.certificates[i].policyScript
  <2>1. CASE Repeated(i)
    <3>1. K[i] = {} /\ CertificateCounts[i] = 0
      BY <2>1 DEF CertificateCounts
    <3>2. IsFiniteSet({}) /\ Cardinality({}) = 0
      BY FS_EmptySet
    <3> QED
      BY <2>1, <3>1, <3>2 DEF AtMost
  <2>2. CASE ~Repeated(i)
    <3>1. p \in Pointer \cup {Nil} /\ StakeKey \in Key /\ b.certificates[i].certificate # Nil
      BY WitnessParts, TxBuilderAssumption
    <3>2. p # Nil => Satisfying[ScriptOf[p]] # {}
      BY GivenScripts
    <3>3. K[i] = ChosenKeys(p, StakeKey) /\ CertificateCounts[i] = WitnessCount(p)
      BY <2>2, <3>1 DEF CertificateCounts, CertificateWitnessCount, WitnessCount
    <3> HIDE DEF p, K
    <3>4. AtMost(K[i], CertificateCounts[i])
          /\ \A more \in SUBSET Key : K[i] \subseteq more => Needs(p, StakeKey, more)
      BY <3>1, <3>2, <3>3, ChosenKeysSuffice DEF AtMost
    <3> QED
      BY <3>4 DEF p
  <2> QED
    BY <2>1, <2>2
<1> HIDE DEF K
<1>2. AtMost(U, SumFunction(CertificateCounts))
  <2>1. IsFiniteSet(S) /\ DOMAIN CertificateCounts = S
    BY WitnessParts DEF CertificateCounts
  <2> QED
    BY <1>1, <2>1, AtMostOfParts
<1>3. \A i \in S : K[i] \subseteq U
  OBVIOUS
<1> HIDE DEF U
<1>4. ASSUME NEW more \in SUBSET Key, U \subseteq more, NEW i \in S
      PROVE  Needs(b.certificates[i].policyScript, StakeKey, more)
  <2>1. PICK j \in S : ~Repeated(j) /\ b.certificates[j].policyScript = b.certificates[i].policyScript
    BY FirstOfItsScript
  <2>2. K[j] \subseteq more
    BY <1>3, <1>4
  <2>3. Needs(b.certificates[j].policyScript, StakeKey, more)
    BY <1>1, <2>1, <2>2
  <2> QED
    BY <2>1, <2>3
<1> QED
  BY <1>2, <1>4

\* The keys that the withdrawal needs, when there is one.
LEMMA WithdrawalKeys ==
  ASSUME BuilderTypeOK, ScriptsCanBeSatisfied
  PROVE  \E keys : /\ AtMost(keys, WithdrawalWitnessCount(b.withdrawalData))
                   /\ \A more \in SUBSET Key :
                        /\ keys \subseteq more
                        /\ b.withdrawalData.policyScript # Nil \/ b.withdrawalData.stakeAddress # Nil
                        => Needs(b.withdrawalData.policyScript, StakeKey, more)
<1> DEFINE p == b.withdrawalData.policyScript
<1>1. p \in Pointer \cup {Nil} /\ StakeKey \in Key
  BY WitnessParts, TxBuilderAssumption
<1>2. p # Nil => Satisfying[ScriptOf[p]] # {}
  BY GivenScripts
<1>3. CASE p = Nil /\ b.withdrawalData.stakeAddress = Nil
  <2>1. WithdrawalWitnessCount(b.withdrawalData) = 0
    BY <1>3 DEF WithdrawalWitnessCount
  <2>2. AtMost({}, 0)
    BY FS_EmptySet DEF AtMost
  <2> QED
    BY <1>3, <2>1, <2>2
<1>4. CASE ~(p = Nil /\ b.withdrawalData.stakeAddress = Nil)
  <2>1. WithdrawalWitnessCount(b.withdrawalData) = WitnessCount(p)
    BY <1>4 DEF WithdrawalWitnessCount, WitnessCount
  <2> HIDE DEF p
  <2>2. /\ AtMost(ChosenKeys(p, StakeKey), WithdrawalWitnessCount(b.withdrawalData))
        /\ \A more \in SUBSET Key : ChosenKeys(p, StakeKey) \subseteq more => Needs(p, StakeKey, more)
    BY <1>1, <1>2, <2>1, ChosenKeysSuffice DEF AtMost
  <2> QED
    BY <2>2 DEF p
<1> QED
  BY <1>3, <1>4

\* There are keys that sign for everything and are no more than the witnesses counted.
LEMMA EnoughWitnesses ==
  ASSUME BuilderTypeOK, ScriptsCanBeSatisfied
  PROVE  /\ CountedWitnesses \in Nat
         /\ \E keys \in SUBSET Key :
              /\ KeysToSign \subseteq keys
              /\ \A ps \in ScriptsToSatisfy : keys \in Satisfying[ps]
              /\ Cardinality(keys) <= CountedWitnesses
<1>1. PICK x : /\ AtMost(x, SumFunction(InputCounts))
               /\ \A more \in SUBSET Key : x \subseteq more =>
                    \A i \in DOMAIN b.inputs :
                      Needs(b.inputs[i].policyScript, OwnerOf[b.inputs[i].txInput], more)
  BY InputKeys
<1>2. PICK y : /\ AtMost(y, SumFunction(CertificateCounts))
               /\ \A more \in SUBSET Key : y \subseteq more =>
                    \A i \in DOMAIN b.certificates : Needs(b.certificates[i].policyScript, StakeKey, more)
  BY CertificateKeys
<1>3. PICK z : /\ AtMost(z, WithdrawalWitnessCount(b.withdrawalData))
               /\ \A more \in SUBSET Key :
                    /\ z \subseteq more
                    /\ b.withdrawalData.policyScript # Nil \/ b.withdrawalData.stakeAddress # Nil
                    => Needs(b.withdrawalData.policyScript, StakeKey, more)
  BY WithdrawalKeys
<1> DEFINE keys == x \cup y \cup z
           count == SumFunction(InputCounts) + SumFunction(CertificateCounts)
                      + WithdrawalWitnessCount(b.withdrawalData)
<1>4. AtMost(keys, count)
  <2>1. AtMost(x \cup y, SumFunction(InputCounts) + SumFunction(CertificateCounts))
    BY <1>1, <1>2, AtMostTogether
  <2> QED
    BY <1>3, <2>1, AtMostTogether
<1>5. /\ \A i \in DOMAIN b.inputs : Needs(b.inputs[i].policyScript, OwnerOf[b.inputs[i].txInput], keys)
      /\ \A i \in DOMAIN b.certificates : Needs(b.certificates[i].policyScript, StakeKey, keys)
      /\ (b.withdrawalData.policyScript # Nil \/ b.withdrawalData.stakeAddress # Nil) =>
           Needs(b.withdrawalData.policyScript, StakeKey, keys)
  <2>1. keys \in SUBSET Key /\ x \subseteq keys /\ y \subseteq keys /\ z \subseteq keys
    BY <1>4 DEF AtMost
  <2> HIDE DEF keys
  <2> QED
    BY <1>1, <1>2, <1>3, <2>1
<1>6. CountedWitnesses = IF count < 1 THEN 1 ELSE count
  BY DEF CountedWitnesses, InputCounts, CertificateCounts, Repeated, getCertfificatesWitnessCount
<1> HIDE DEF keys, count
<1>7. CountedWitnesses \in Nat /\ Cardinality(keys) <= CountedWitnesses /\ keys \in SUBSET Key
  <2>1. Cardinality(keys) \in Nat
    BY <1>4, FS_CardinalityType DEF AtMost
  <2> QED
    BY <1>4, <1>6, <2>1 DEF AtMost
<1>8. KeysToSign \subseteq keys
  BY <1>5 DEF KeysToSign, Needs
<1>9. \A ps \in ScriptsToSatisfy : keys \in Satisfying[ps]
  BY <1>5 DEF ScriptsToSatisfy, Needs
<1> QED
  BY <1>7, <1>8, <1>9

-----------------------------------------------------------------------------
(* The fields of the builder *)

OptionalScripts == Pointer \cup {Nil}
BuilderInputs == [txInput : Input, policyScript : OptionalScripts]
BuilderOutputs == [addr : STRING, amount : Nat, tokens : Slice]
BuilderCertificates == [certificate : {Certificate}, policyScript : OptionalScripts]
BuilderFields ==
  [inputs : Seq(BuilderInputs), outputs : Seq(BuilderOutputs),
   mints : [tokens : Seq({MintedToken}), policyScripts : Seq(Pointer)],
   certificates : Seq(BuilderCertificates),
   metadata : {"metadata", Nil}, protocolParameters : {"parameters", Nil}, fee : Nat,
   withdrawalData : [stakeAddress : {w[1] : w \in WithdrawalsGiven} \cup {Nil},
                     rewardAmount : Nat, policyScript : OptionalScripts]]

\* The type invariant in terms of the sets named here.
LEMMA TypeOfBuilder ==
  BuilderTypeOK <=> b \in BuilderFields /\ amounts \in [Slice -> Seq(Nat)] /\ steps \in 0..MaxSteps
BY DEF BuilderTypeOK, BuilderFields, BuilderInputs, BuilderOutputs, BuilderCertificates, OptionalScripts

\* A setter that gives the fields and the amounts values of their types.
SetWithin == steps < MaxSteps /\ \E fields \in BuilderFields : Set(fields) /\ amounts' \in [Slice -> Seq(Nat)]

\* A setter that gives fields of the right type keeps the type invariant.
LEMMA SetKeepsType ==
  ASSUME BuilderTypeOK, SetWithin
  PROVE  BuilderTypeOK'
<1>1. b' \in BuilderFields /\ amounts' \in [Slice -> Seq(Nat)] /\ steps' \in 0..MaxSteps
  <2>1. steps \in 0..MaxSteps /\ MaxSteps \in Nat
    BY TypeOfBuilder, TxBuilderAssumption
  <2> QED
    BY <2>1 DEF SetWithin, Set
<1> QED
  BY <1>1 DEF BuilderTypeOK, BuilderFields, BuilderInputs, BuilderOutputs, BuilderCertificates, OptionalScripts

\* One element makes a sequence.
LEMMA SequenceOfOne ==
  ASSUME NEW S, NEW e \in S
  PROVE  <<e>> \in Seq(S)
OBVIOUS

\* An index that is accepted is the place of an output.
LEMMA PlaceInOutputs ==
  ASSUME BuilderTypeOK, NEW index \in Int, Place(index) \in DOMAIN b.outputs
  PROVE  /\ DOMAIN b.outputs = 1..Len(b.outputs) /\ Len(b.outputs) \in Nat
         /\ Place(index) \in 1..Len(b.outputs)
         /\ b.outputs \in Seq(BuilderOutputs) /\ \A i \in 1..Len(b.outputs) : b.outputs[i] \in BuilderOutputs
<1>1. b.outputs \in Seq(BuilderOutputs)
  BY TypeOfBuilder DEF BuilderFields
<1> QED
  BY <1>1, LenProperties, ElementOfSeq

\* More inputs leave the fields well typed.
LEMMA InputsSet ==
  ASSUME BuilderTypeOK, NEW more \in Seq(BuilderInputs)
  PROVE  [b EXCEPT !.inputs = @ \o more] \in BuilderFields
<1>1. b \in BuilderFields
  BY TypeOfBuilder
<1>2. b.inputs \o more \in Seq(BuilderInputs)
  <2>1. b.inputs \in Seq(BuilderInputs)
    BY <1>1 DEF BuilderFields
  <2> QED
    BY <2>1, ConcatProperties
<1> QED
  BY <1>1, <1>2 DEF BuilderFields

\* So do other outputs.
LEMMA OutputsSet ==
  ASSUME BuilderTypeOK, NEW outputs \in Seq(BuilderOutputs)
  PROVE  [b EXCEPT !.outputs = outputs] \in BuilderFields
BY TypeOfBuilder DEF BuilderFields

\* Every setter keeps the type invariant.
LEMMA SetterKeepsType ==
  ASSUME BuilderTypeOK, steps < MaxSteps, Setters
  PROVE  BuilderTypeOK'
<1> USE TypeOfBuilder
<1>0. b \in BuilderFields /\ amounts \in [Slice -> Seq(Nat)]
  OBVIOUS
<1> SUFFICES SetWithin
  BY SetKeepsType
<1>1. CASE SetProtocolParameters
  <2>1. [b EXCEPT !.protocolParameters = "parameters"] \in BuilderFields
    BY <1>0 DEF BuilderFields
  <2> QED
    BY <1>0, <1>1, <2>1 DEF SetWithin, SetProtocolParameters
<1>2. ASSUME NEW m \in {"metadata", Nil}, SetMetaData(m) PROVE SetWithin
  <2>1. [b EXCEPT !.metadata = m] \in BuilderFields
    BY <1>0 DEF BuilderFields
  <2> QED
    BY <1>0, <1>2, <2>1 DEF SetWithin, SetMetaData
<1>3. ASSUME NEW fee \in {7}, SetFee(fee) PROVE SetWithin
  <2>1. fee \in Nat
    BY <1>3
  <2>2. [b EXCEPT !.fee = fee] \in BuilderFields
    BY <1>0, <2>1 DEF BuilderFields
  <2> QED
    BY <1>0, <1>3, <2>2 DEF SetWithin, SetFee
<1>4. ASSUME NEW i \in Input, NEW script \in OptionalScripts, AddInputsWithScript(script, <<i>>) PROVE SetWithin
  <2>1. WithScript(script, <<i>>) = <<[txInput |-> i, policyScript |-> script]>>
    BY DEF WithScript
  <2>2. [txInput |-> i, policyScript |-> script] \in BuilderInputs
    BY DEF BuilderInputs
  <2>3. WithScript(script, <<i>>) \in Seq(BuilderInputs)
    BY <2>1, <2>2, SequenceOfOne
  <2>4. [b EXCEPT !.inputs = @ \o WithScript(script, <<i>>)] \in BuilderFields
    BY <2>3, InputsSet
  <2> QED
    BY <1>0, <1>4, <2>4 DEF SetWithin, AddInputsWithScript
<1>5. ASSUME NEW i \in Input, NEW j \in Input, NEW script \in Pointer, AddInputsWithScripts(<<i, j>>, <<script>>)
      PROVE  SetWithin
  <2> DEFINE more == <<[txInput |-> i, policyScript |-> script]>>
  <2>1. [txInput |-> i, policyScript |-> script] \in BuilderInputs
    BY DEF BuilderInputs, OptionalScripts
  <2>2. more \in Seq(BuilderInputs)
    BY <2>1
  <2>3. Set([b EXCEPT !.inputs = @ \o more]) /\ UNCHANGED amounts
    <3>1. [k \in 1..1 |-> [txInput |-> <<i, j>>[k], policyScript |-> <<script>>[k]]] = more
      OBVIOUS
    <3>2. (IF Len(<<i, j>>) > Len(<<script>>) THEN Len(<<script>>) ELSE Len(<<i, j>>)) = 1
      OBVIOUS
    <3> HIDE DEF more
    <3> QED
      BY <1>5, <3>1, <3>2 DEF AddInputsWithScripts
  <2>4. [b EXCEPT !.inputs = @ \o more] \in BuilderFields
    <3> HIDE DEF more
    <3> QED
      BY <2>2, InputsSet
  <2> HIDE DEF more
  <2> QED
    BY <1>0, <2>3, <2>4 DEF SetWithin
<1>6. ASSUME NEW output \in OutputsGiven, AddOutputs(<<output>>) PROVE SetWithin
  <2>1. <<output>> \in Seq(BuilderOutputs) /\ b.outputs \in Seq(BuilderOutputs)
    BY <1>0, TxBuilderAssumption DEF BuilderOutputs, BuilderFields
  <2>2. b.outputs \o <<output>> \in Seq(BuilderOutputs)
    BY <2>1, ConcatProperties
  <2>3. [b EXCEPT !.outputs = b.outputs \o <<output>>] \in BuilderFields
    BY <2>2, OutputsSet
  <2> QED
    BY <1>0, <1>6, <2>3 DEF SetWithin, AddOutputs
<1>7. ASSUME NEW output \in OutputsGiven, NEW index \in Int, ReplaceOutput(index, output) PROVE SetWithin
  <2> DEFINE i == Place(index)
  <2>1. i \in 1..Len(b.outputs) /\ b.outputs \in Seq(BuilderOutputs)
    BY <1>7, PlaceInOutputs DEF ReplaceOutput
  <2>2. output \in BuilderOutputs
    BY TxBuilderAssumption DEF BuilderOutputs
  <2>3. Set([b EXCEPT !.outputs[i] = output]) /\ UNCHANGED amounts
    BY <1>7 DEF ReplaceOutput
  <2> HIDE DEF i
  <2>4. [b.outputs EXCEPT ![i] = output] \in Seq(BuilderOutputs)
    BY <2>1, <2>2, ExceptSeq
  <2>5. [b EXCEPT !.outputs = [b.outputs EXCEPT ![i] = output]] \in BuilderFields
    BY <2>4, OutputsSet
  <2>6. [b EXCEPT !.outputs[i] = output] = [b EXCEPT !.outputs = [b.outputs EXCEPT ![i] = output]]
    BY <1>0
  <2> QED
    BY <1>0, <2>3, <2>5, <2>6 DEF SetWithin
<1>8. ASSUME NEW index \in Int, NEW given \in Seq(Nat), UpdateOutputAmount(index, 2, given)
      PROVE  SetWithin
  <2> DEFINE i == Place(index)
             slice == b.outputs[i].tokens
             tokens == [k \in DOMAIN amounts[slice] |-> IF k \in DOMAIN given THEN given[k] ELSE amounts[slice][k]]
  <2>1. /\ i \in 1..Len(b.outputs) /\ b.outputs \in Seq(BuilderOutputs)
        /\ b.outputs[i] \in BuilderOutputs
    BY <1>8, PlaceInOutputs DEF UpdateOutputAmount
  <2>2. Set([b EXCEPT !.outputs[i].amount = 2]) /\ amounts' = [amounts EXCEPT ![slice] = tokens]
    BY <1>8 DEF UpdateOutputAmount
  <2>3. tokens \in Seq(Nat)
    <3>1. amounts[slice] \in Seq(Nat)
      BY <1>0, <2>1 DEF BuilderOutputs
    <3> DEFINE n == Len(amounts[slice])
    <3>2. n \in Nat /\ DOMAIN amounts[slice] = 1..n /\ \A k \in 1..n : amounts[slice][k] \in Nat
      BY <3>1, LenProperties, ElementOfSeq
    <3>3. \A k \in DOMAIN given : given[k] \in Nat
      BY LenProperties, ElementOfSeq
    <3> HIDE DEF n, slice
    <3>4. tokens \in [1..n -> Nat]
      BY <3>2, <3>3
    <3> HIDE DEF tokens
    <3> QED
      BY <3>2, <3>4, SeqDef
  <2>4. amounts' \in [Slice -> Seq(Nat)]
    <3> HIDE DEF tokens, slice
    <3> QED
      BY <1>0, <2>2, <2>3
  <2> HIDE DEF i, tokens
  <2>5. [b.outputs[i] EXCEPT !.amount = 2] \in BuilderOutputs
    BY <2>1 DEF BuilderOutputs
  <2>6. [b.outputs EXCEPT ![i] = [b.outputs[i] EXCEPT !.amount = 2]] \in Seq(BuilderOutputs)
    <3> DEFINE e == [b.outputs[i] EXCEPT !.amount = 2]
    <3> HIDE DEF e
    <3>1. [b.outputs EXCEPT ![i] = e] \in Seq(BuilderOutputs)
      BY <2>1, <2>5, ExceptSeq DEF e
    <3> QED
      BY <3>1 DEF e
  <2>7. [b EXCEPT !.outputs[i].amount = 2]
          = [b EXCEPT !.outputs = [b.outputs EXCEPT ![i] = [b.outputs[i] EXCEPT !.amount = 2]]]
    BY <1>0
  <2>8. [b EXCEPT !.outputs[i].amount = 2] \in BuilderFields
    BY <2>6, <2>7, OutputsSet
  <2> QED
    BY <2>2, <2>4, <2>8 DEF SetWithin
<1>9. ASSUME NEW index \in Int, RemoveOutput(index) PROVE SetWithin
  <2> DEFINE i == Place(index)
  <2>1. /\ i \in 1..Len(b.outputs) /\ Len(b.outputs) \in Nat
        /\ \A k \in 1..Len(b.outputs) : b.outputs[k] \in BuilderOutputs
    BY <1>9, PlaceInOutputs DEF RemoveOutput
  <2>2. Set([b EXCEPT !.outputs = RemoveAt(b.outputs, i)]) /\ UNCHANGED amounts
    BY <1>9 DEF RemoveOutput
  <2> HIDE DEF i
  <2>3. RemoveAt(b.outputs, i) \in Seq(BuilderOutputs)
    <3>1. SubSeq(b.outputs, 1, i - 1) \in Seq(BuilderOutputs)
      BY <2>1, SubSeqProperties
    <3>2. SubSeq(b.outputs, i + 1, Len(b.outputs)) \in Seq(BuilderOutputs)
      BY <2>1, SubSeqProperties
    <3> QED
      BY <3>1, <3>2, ConcatProperties DEF RemoveAt
  <2>4. [b EXCEPT !.outputs = RemoveAt(b.outputs, i)] \in BuilderFields
    BY <2>3, OutputsSet
  <2> QED
    BY <1>0, <2>2, <2>4 DEF SetWithin
<1>10. ASSUME NEW mint \in MintsGiven, AddTokenMints(mint, <<MintedToken>>) PROVE SetWithin
  <2>1. /\ b.mints \in [tokens : Seq({MintedToken}), policyScripts : Seq(Pointer)]
        /\ mint \in Seq(Pointer) /\ <<MintedToken>> \in Seq({MintedToken})
    BY <1>0, TxBuilderAssumption DEF BuilderFields
  <2>2. b.mints.tokens \o <<MintedToken>> \in Seq({MintedToken}) /\ b.mints.policyScripts \o mint \in Seq(Pointer)
    BY <2>1, ConcatProperties
  <2> DEFINE mints == [tokens |-> b.mints.tokens \o <<MintedToken>>, policyScripts |-> b.mints.policyScripts \o mint]
  <2>3. mints \in [tokens : Seq({MintedToken}), policyScripts : Seq(Pointer)]
    BY <2>2
  <2>4. Set([b EXCEPT !.mints = mints]) /\ UNCHANGED amounts
    BY <1>10 DEF AddTokenMints
  <2> HIDE DEF mints
  <2>5. [b EXCEPT !.mints = mints] \in BuilderFields
    BY <1>0, <2>3 DEF BuilderFields
  <2> QED
    BY <1>0, <2>4, <2>5 DEF SetWithin
<1>11. ASSUME NEW w \in WithdrawalsGiven, SetWithdrawalData(w[1], 1, w[2]) PROVE SetWithin
  <2> DEFINE data == [stakeAddress |-> w[1], rewardAmount |-> 1, policyScript |-> w[2]]
  <2>1. data \in [stakeAddress : {v[1] : v \in WithdrawalsGiven} \cup {Nil},
                  rewardAmount : Nat, policyScript : OptionalScripts]
    BY TxBuilderAssumption DEF OptionalScripts
  <2>2. Set([b EXCEPT !.withdrawalData = data]) /\ UNCHANGED amounts
    BY <1>11 DEF SetWithdrawalData
  <2> HIDE DEF data
  <2>3. [b EXCEPT !.withdrawalData = data] \in BuilderFields
    BY <1>0, <2>1 DEF BuilderFields
  <2> QED
    BY <1>0, <2>2, <2>3 DEF SetWithin
<1>12. ASSUME NEW script \in OptionalScripts, AddCertificates(script, <<Certificate>>) PROVE SetWithin
  <2> DEFINE more == <<[certificate |-> Certificate, policyScript |-> script]>>
  <2>1. [certificate |-> Certificate, policyScript |-> script] \in BuilderCertificates
    BY DEF BuilderCertificates
  <2>2. more \in Seq(BuilderCertificates) /\ b.certificates \in Seq(BuilderCertificates)
    BY <1>0, <2>1 DEF BuilderFields
  <2>3. Set([b EXCEPT !.certificates = @ \o more]) /\ UNCHANGED amounts
    <3>1. [k \in DOMAIN <<Certificate>> |-> [certificate |-> <<Certificate>>[k], policyScript |-> script]] = more
      OBVIOUS
    <3> HIDE DEF more
    <3> QED
      BY <1>12, <3>1 DEF AddCertificates
  <2> HIDE DEF more
  <2>4. b.certificates \o more \in Seq(BuilderCertificates)
    BY <2>2, ConcatProperties
  <2>5. [b EXCEPT !.certificates = @ \o more] \in BuilderFields
    BY <1>0, <2>4 DEF BuilderFields
  <2> QED
    BY <1>0, <2>3, <2>5 DEF SetWithin
<1>13. ASSUME NEW i \in Input, AddInputs(<<i>>) PROVE SetWithin
  BY <1>4, <1>13 DEF AddInputs, OptionalScripts
<1>14. ASSUME NEW i \in Input, NEW script \in Pointer, AddInputsWithScript(script, <<i>>) PROVE SetWithin
  BY <1>4, <1>14 DEF OptionalScripts
<1>15. ASSUME NEW script \in Pointer \cup {Nil}, AddCertificates(script, <<Certificate>>) PROVE SetWithin
  BY <1>12, <1>15 DEF OptionalScripts
<1>16. 0 \in Int /\ -1 \in Int /\ -2 \in Int /\ <<3>> \in Seq(Nat)
  OBVIOUS
<1> HIDE DEF SetWithin
<1> QED
  BY <1>1, <1>2, <1>3, <1>5, <1>6, <1>7, <1>8, <1>9, <1>10, <1>11, <1>13, <1>14, <1>15, <1>16 DEF Setters

\* The operations of cardano-cli leave the builder as it is.
LEMMA OperationsKeepFields ==
  ASSUME Operations
  PROVE  b' = b /\ amounts' = amounts /\ steps' = steps + 1
<1>1. ASSUME NEW result, Call(result) PROVE b' = b /\ amounts' = amounts /\ steps' = steps + 1
  BY <1>1 DEF Call
<1>2. ASSUME NEW n, NEW o, NEW a, Build(n, o, a) PROVE \E result : Call(result)
  BY <1>2 DEF Build
<1>3. ASSUME NEW n, NEW o, NEW a, NEW count, CalculateFee(count, n, o, a) PROVE \E result : Call(result)
  BY <1>3 DEF CalculateFee
<1>4. ASSUME NEW output, NEW a, CalculateMinUtxo(output, a) PROVE \E result : Call(result)
  BY <1>4 DEF CalculateMinUtxo
<1>5. ASSUME NEW tx, NEW signers, NEW os, NEW o, SignTx(tx, signers, os, o) PROVE \E result : Call(result)
  BY <1>5 DEF SignTx
<1> QED
  BY <1>1, <1>2, <1>3, <1>4, <1>5 DEF Operations

\* The type invariant holds of a new builder.
LEMMA BuilderTypeInit == BuilderInit => BuilderTypeOK
<1> SUFFICES ASSUME BuilderInit PROVE BuilderTypeOK
  OBVIOUS
<1>1. <<>> \in Seq(BuilderInputs) /\ <<>> \in Seq(BuilderOutputs) /\ <<>> \in Seq(BuilderCertificates)
      /\ <<>> \in Seq({MintedToken}) /\ <<>> \in Seq(Pointer) /\ <<1>> \in Seq(Nat)
  BY EmptySeq
<1>2. NewBuilder \in BuilderFields
  BY <1>1 DEF NewBuilder, BuilderFields, OptionalScripts
<1>3. [NewBuilder EXCEPT !.protocolParameters = "parameters"] \in BuilderFields
  BY <1>2 DEF BuilderFields
<1>4. b \in BuilderFields
  BY <1>2, <1>3 DEF BuilderInit
<1>5. amounts \in [Slice -> Seq(Nat)]
  BY <1>1 DEF BuilderInit
<1>6. steps \in 0..MaxSteps
  BY TxBuilderAssumption DEF BuilderInit
<1> QED
  BY <1>4, <1>5, <1>6, TypeOfBuilder

\* Every step keeps the type invariant.
LEMMA BuilderTypeStep ==
  ASSUME BuilderTypeOK, [BuilderNext]_builderVars
  PROVE  BuilderTypeOK'
<1>1. CASE BuilderNext /\ Setters
  BY <1>1, SetterKeepsType DEF BuilderNext
<1>2. CASE BuilderNext /\ Operations
  <2>1. b' = b /\ amounts' = amounts /\ steps' = steps + 1 /\ steps < MaxSteps
    BY <1>2, OperationsKeepFields DEF BuilderNext
  <2>2. steps' \in 0..MaxSteps
    BY <2>1, TypeOfBuilder, TxBuilderAssumption
  <2> QED
    BY <2>1, <2>2 DEF BuilderTypeOK
<1>3. CASE UNCHANGED builderVars
  BY <1>3 DEF builderVars, BuilderTypeOK
<1> QED
  BY <1>1, <1>2, <1>3 DEF BuilderNext

\* The fields of the builder have their types after any calls, setters and operations.
THEOREM BuilderTypeCorrect == BuilderSpec => []BuilderTypeOK
<1>1. BuilderTypeOK /\ [BuilderNext]_builderVars => BuilderTypeOK'
  BY BuilderTypeStep
<1> QED
  BY BuilderTypeInit, <1>1, PTL DEF BuilderSpec

-----------------------------------------------------------------------------
(* The outputs *)

KeepsOthers(t) ==
  \A i \in DOMAIN b.outputs \ {t} :
    LET j == IF Len(b'.outputs) < Len(b.outputs) /\ i > t THEN i - 1 ELSE i
    IN  /\ j \in DOMAIN b'.outputs
        /\ \/ Shown(b'.outputs[j], amounts') = Shown(b.outputs[i], amounts)
           \/ t # 0 /\ b.outputs[i].tokens = b.outputs[t].tokens

\* What the type invariant says of the outputs.
LEMMA OutputsAreSequence ==
  ASSUME BuilderTypeOK
  PROVE  /\ b \in BuilderFields /\ b.outputs \in Seq(BuilderOutputs)
         /\ DOMAIN b.outputs = 1..Len(b.outputs) /\ Len(b.outputs) \in Nat
         /\ \A i \in DOMAIN b.outputs : b.outputs[i] \in BuilderOutputs
<1>1. b \in BuilderFields /\ b.outputs \in Seq(BuilderOutputs)
  BY TypeOfBuilder DEF BuilderFields
<1> QED
  BY <1>1, LenProperties, ElementOfSeq

\* A call that leaves outputs and amounts alone touches none of them.
LEMMA SameOutputs ==
  ASSUME BuilderTypeOK, b'.outputs = b.outputs, amounts' = amounts
  PROVE  KeepsOthers(0)
BY OutputsAreSequence DEF KeepsOthers

\* ReplaceOutput touches the output it replaces.
LEMMA ReplacedOutput ==
  ASSUME BuilderTypeOK, NEW index \in Int, NEW output, ReplaceOutput(index, output)
  PROVE  \E t \in 0..Len(b.outputs) : KeepsOthers(t)
<1> DEFINE t == Place(index)
<1>1. /\ t \in 1..Len(b.outputs) /\ b \in BuilderFields /\ amounts' = amounts
      /\ DOMAIN b.outputs = 1..Len(b.outputs) /\ Len(b.outputs) \in Nat
      /\ b' = [b EXCEPT !.outputs[t] = output]
  BY OutputsAreSequence DEF ReplaceOutput, Set
<1> HIDE DEF t
<1>2. b'.outputs = [b.outputs EXCEPT ![t] = output]
  BY <1>1 DEF BuilderFields
<1>3. DOMAIN b'.outputs = DOMAIN b.outputs /\ Len(b'.outputs) = Len(b.outputs)
  BY <1>1, <1>2
<1>4. \A i \in DOMAIN b.outputs \ {t} : b'.outputs[i] = b.outputs[i]
  BY <1>2
<1>5. KeepsOthers(t)
  BY <1>1, <1>3, <1>4 DEF KeepsOthers
<1> QED
  BY <1>1, <1>5

\* UpdateOutputAmount touches the output it updates and those that share its slice.
LEMMA UpdatedOutput ==
  ASSUME BuilderTypeOK, NEW index \in Int, NEW amount, NEW tokenAmounts,
         UpdateOutputAmount(index, amount, tokenAmounts)
  PROVE  \E t \in 0..Len(b.outputs) : KeepsOthers(t)
<1> DEFINE t == Place(index)
           slice == b.outputs[t].tokens
           tokens == [k \in DOMAIN amounts[slice] |->
                        IF k \in DOMAIN tokenAmounts THEN tokenAmounts[k] ELSE amounts[slice][k]]
<1>1. /\ t \in 1..Len(b.outputs) /\ b \in BuilderFields /\ amounts \in [Slice -> Seq(Nat)]
      /\ DOMAIN b.outputs = 1..Len(b.outputs) /\ Len(b.outputs) \in Nat
      /\ b' = [b EXCEPT !.outputs[t].amount = amount]
      /\ amounts' = [amounts EXCEPT ![slice] = tokens]
  BY OutputsAreSequence, TypeOfBuilder DEF UpdateOutputAmount, Set
<1> HIDE DEF t, tokens
<1>2. b'.outputs = [b.outputs EXCEPT ![t] = [b.outputs[t] EXCEPT !.amount = amount]]
  BY <1>1 DEF BuilderFields
<1>3. DOMAIN b'.outputs = DOMAIN b.outputs /\ Len(b'.outputs) = Len(b.outputs)
  BY <1>1, <1>2
<1>4. \A i \in DOMAIN b.outputs \ {t} : b'.outputs[i] = b.outputs[i]
  BY <1>2
<1>5. \A i \in DOMAIN b.outputs : b.outputs[i].tokens # slice =>
         amounts'[b.outputs[i].tokens] = amounts[b.outputs[i].tokens]
  <2>1. \A i \in DOMAIN b.outputs : b.outputs[i].tokens \in Slice
    BY OutputsAreSequence DEF BuilderOutputs
  <2> HIDE DEF slice
  <2> QED
    BY <1>1, <2>1
<1>6. KeepsOthers(t)
  <2>1. ASSUME NEW i \in DOMAIN b.outputs \ {t}
        PROVE  \/ Shown(b'.outputs[i], amounts') = Shown(b.outputs[i], amounts)
               \/ t # 0 /\ b.outputs[i].tokens = b.outputs[t].tokens
    <3>1. CASE b.outputs[i].tokens = slice
      BY <1>1, <3>1
    <3>2. CASE b.outputs[i].tokens # slice
      BY <1>4, <1>5, <3>2 DEF Shown
    <3> QED
      BY <3>1, <3>2
  <2>2. ~(Len(b'.outputs) < Len(b.outputs))
    BY <1>1, <1>3
  <2> QED
    BY <1>3, <2>1, <2>2 DEF KeepsOthers
<1> QED
  BY <1>1, <1>6

\* RemoveOutput takes one output out; those behind it move up.
LEMMA RemovedOutput ==
  ASSUME BuilderTypeOK, NEW index \in Int, RemoveOutput(index)
  PROVE  \E t \in 0..Len(b.outputs) : KeepsOthers(t)
<1> DEFINE t == Place(index)
           n == Len(b.outputs)
           front == SubSeq(b.outputs, 1, t - 1)
           back == SubSeq(b.outputs, t + 1, n)
<1>1. /\ t \in 1..n /\ b \in BuilderFields /\ amounts' = amounts
      /\ DOMAIN b.outputs = 1..n /\ n \in Nat
      /\ \A i \in 1..n : b.outputs[i] \in BuilderOutputs
      /\ b' = [b EXCEPT !.outputs = RemoveAt(b.outputs, t)]
  BY OutputsAreSequence DEF RemoveOutput, Set
<1> HIDE DEF t, n
<1>2. /\ front \in Seq(BuilderOutputs) /\ Len(front) = t - 1
      /\ \A i \in 1..t - 1 : front[i] = b.outputs[i]
  <2>1. /\ \A i \in 1..t - 1 : b.outputs[i] \in BuilderOutputs
        /\ t - 1 \in Int /\ (t - 1) - 1 + 1 = t - 1
        /\ (IF 1 <= t - 1 THEN (t - 1) - 1 + 1 ELSE 0) = t - 1
        /\ \A i \in 1..t - 1 : 1 + i - 1 = i
    BY <1>1
  <2>2. /\ front \in Seq(BuilderOutputs)
        /\ Len(front) = IF 1 <= t - 1 THEN (t - 1) - 1 + 1 ELSE 0
        /\ \A i \in 1..(t - 1) - 1 + 1 : front[i] = b.outputs[1 + i - 1]
    BY <2>1, SubSeqProperties
  <2> HIDE DEF front
  <2> QED
    BY <2>1, <2>2
<1>3. /\ back \in Seq(BuilderOutputs) /\ Len(back) = n - t
      /\ \A i \in 1..n - t : back[i] = b.outputs[t + i]
  <2>1. /\ \A i \in t + 1..n : b.outputs[i] \in BuilderOutputs
        /\ t + 1 \in Int /\ n \in Int /\ n - (t + 1) + 1 = n - t
        /\ (IF t + 1 <= n THEN n - (t + 1) + 1 ELSE 0) = n - t
        /\ \A i \in 1..n - t : t + 1 + i - 1 = t + i
    BY <1>1
  <2>2. /\ back \in Seq(BuilderOutputs)
        /\ Len(back) = IF t + 1 <= n THEN n - (t + 1) + 1 ELSE 0
        /\ \A i \in 1..n - (t + 1) + 1 : back[i] = b.outputs[t + 1 + i - 1]
    BY <2>1, SubSeqProperties
  <2> HIDE DEF back
  <2> QED
    BY <2>1, <2>2
<1>4. b'.outputs = front \o back
  BY <1>1 DEF BuilderFields, RemoveAt, n
<1> HIDE DEF front, back
<1>5. /\ Len(b'.outputs) = n - 1 /\ DOMAIN b'.outputs = 1..n - 1
      /\ \A i \in 1..n - 1 : b'.outputs[i] = IF i <= t - 1 THEN front[i] ELSE back[i - (t - 1)]
  BY <1>1, <1>2, <1>3, <1>4, ConcatProperties, LenProperties, SMTT(30)
<1>6. ASSUME NEW i \in DOMAIN b.outputs \ {t}
      PROVE  LET j == IF i > t THEN i - 1 ELSE i
             IN  j \in DOMAIN b'.outputs /\ b'.outputs[j] = b.outputs[i]
  <2>1. CASE i > t
    <3>1. i - 1 \in 1..n - 1 /\ ~(i - 1 <= t - 1) /\ i - t \in 1..n - t /\ t + (i - t) = i
          /\ (i - 1) - (t - 1) = i - t
      BY <1>1, <2>1
    <3> QED
      BY <1>3, <1>5, <2>1, <3>1
  <2>2. CASE ~(i > t)
    <3>1. i \in 1..n - 1 /\ i <= t - 1 /\ i \in 1..t - 1
      BY <1>1, <2>2
    <3> QED
      BY <1>2, <1>5, <2>2, <3>1
  <2> QED
    BY <2>1, <2>2
<1>7. Len(b'.outputs) < Len(b.outputs)
  BY <1>1, <1>5 DEF n
<1>8. KeepsOthers(t)
  BY <1>1, <1>6, <1>7 DEF KeepsOthers
<1> QED
  BY <1>1, <1>8 DEF n

\* AddOutputs leaves the outputs that were there.
LEMMA AddedOutputs ==
  ASSUME BuilderTypeOK, NEW output \in BuilderOutputs, AddOutputs(<<output>>)
  PROVE  KeepsOthers(0)
<1>1. /\ b \in BuilderFields /\ b.outputs \in Seq(BuilderOutputs) /\ amounts' = amounts
      /\ DOMAIN b.outputs = 1..Len(b.outputs) /\ Len(b.outputs) \in Nat
      /\ b' = [b EXCEPT !.outputs = b.outputs \o <<output>>]
  BY OutputsAreSequence DEF AddOutputs, Set
<1>2. b'.outputs = b.outputs \o <<output>>
  BY <1>1 DEF BuilderFields
<1>3. <<output>> \in Seq(BuilderOutputs) /\ Len(<<output>>) = 1
  BY SequenceOfOne
<1>4. /\ Len(b'.outputs) = Len(b.outputs) + 1 /\ DOMAIN b'.outputs = 1..Len(b.outputs) + 1
      /\ \A i \in 1..Len(b.outputs) : b'.outputs[i] = b.outputs[i]
  <2>1. b'.outputs \in Seq(BuilderOutputs) /\ Len(b'.outputs) = Len(b.outputs) + 1
    BY <1>1, <1>2, <1>3, ConcatProperties
  <2>2. \A i \in 1..Len(b.outputs) : b'.outputs[i] = b.outputs[i]
    BY <1>1, <1>2, <1>3, ConcatProperties
  <2> QED
    BY <2>1, <2>2, LenProperties
<1> QED
  BY <1>1, <1>4 DEF KeepsOthers

\* Every step touches at most one output.
LEMMA OthersKept ==
  ASSUME BuilderTypeOK, [BuilderNext]_builderVars
  PROVE  \E t \in 0..Len(b.outputs) : KeepsOthers(t)
<1>1. Len(b.outputs) \in Nat /\ 0 \in 0..Len(b.outputs) /\ b \in BuilderFields
  BY OutputsAreSequence
<1>2. CASE b'.outputs = b.outputs /\ amounts' = amounts
  BY <1>1, <1>2, SameOutputs
<1>3. ASSUME NEW fields, Set(fields), fields.outputs = b.outputs, amounts' = amounts
      PROVE  b'.outputs = b.outputs /\ amounts' = amounts
  BY <1>3 DEF Set
<1>4. ASSUME NEW output \in OutputsGiven, AddOutputs(<<output>>) PROVE KeepsOthers(0)
  BY <1>4, AddedOutputs, TxBuilderAssumption DEF BuilderOutputs
<1>5. CASE Setters
  <2>1. 0 \in Int /\ -1 \in Int /\ -2 \in Int
    OBVIOUS
  <2>2. ASSUME NEW value
        PROVE  /\ [b EXCEPT !.protocolParameters = value].outputs = b.outputs
               /\ [b EXCEPT !.metadata = value].outputs = b.outputs
               /\ [b EXCEPT !.fee = value].outputs = b.outputs
               /\ [b EXCEPT !.inputs = value].outputs = b.outputs
               /\ [b EXCEPT !.mints = value].outputs = b.outputs
               /\ [b EXCEPT !.withdrawalData = value].outputs = b.outputs
               /\ [b EXCEPT !.certificates = value].outputs = b.outputs
    BY <1>1 DEF BuilderFields
  <2>3. ASSUME SetProtocolParameters PROVE b'.outputs = b.outputs /\ amounts' = amounts
    BY <2>2, <2>3 DEF SetProtocolParameters, Set
  <2>4. ASSUME NEW m, SetMetaData(m) PROVE b'.outputs = b.outputs /\ amounts' = amounts
    BY <2>2, <2>4 DEF SetMetaData, Set
  <2>5. ASSUME NEW fee, SetFee(fee) PROVE b'.outputs = b.outputs /\ amounts' = amounts
    BY <2>2, <2>5 DEF SetFee, Set
  <2>6. ASSUME NEW script, NEW inputs, AddInputsWithScript(script, inputs)
        PROVE  b'.outputs = b.outputs /\ amounts' = amounts
    BY <2>2, <2>6 DEF AddInputsWithScript, Set
  <2>7. ASSUME NEW scripts, NEW inputs, AddInputsWithScripts(inputs, scripts)
        PROVE  b'.outputs = b.outputs /\ amounts' = amounts
    BY <2>2, <2>7 DEF AddInputsWithScripts, Set
  <2>8. ASSUME NEW scripts, NEW tokens, AddTokenMints(scripts, tokens)
        PROVE  b'.outputs = b.outputs /\ amounts' = amounts
    BY <2>2, <2>8 DEF AddTokenMints, Set
  <2>9. ASSUME NEW stakeAddress, NEW script, SetWithdrawalData(stakeAddress, 1, script)
        PROVE  b'.outputs = b.outputs /\ amounts' = amounts
    BY <2>2, <2>9 DEF SetWithdrawalData, Set
  <2>10. ASSUME NEW script, NEW certificates, AddCertificates(script, certificates)
         PROVE  b'.outputs = b.outputs /\ amounts' = amounts
    BY <2>2, <2>10 DEF AddCertificates, Set
  <2> QED
    BY <1>1, <1>2, <1>4, <1>5, <2>1, <2>3, <2>4, <2>5, <2>6, <2>7, <2>8, <2>9, <2>10,
       ReplacedOutput, UpdatedOutput, RemovedOutput
    DEF Setters, AddInputs
<1>6. CASE Operations
  BY <1>2, <1>6, OperationsKeepFields
<1>7. CASE UNCHANGED builderVars
  BY <1>2, <1>7 DEF builderVars
<1> QED
  BY <1>5, <1>6, <1>7 DEF BuilderNext

\* The action property of the runs: a call touches one output; every other one keeps
\* its amount and its tokens, unless it shares them with the one that is updated.
THEOREM OutputsCorrect == BuilderSpec => OtherOutputsKeep
<1>1. BuilderTypeOK /\ [BuilderNext]_builderVars => [\E t \in 0..Len(b.outputs) : KeepsOthers(t)]_builderVars
  BY OthersKept
<1> QED
  BY BuilderTypeCorrect, <1>1, PTL DEF BuilderSpec, OtherOutputsKeep, KeepsOthers

-----------------------------------------------------------------------------
(* The files *)

\* A file that is written has its new content and the others have theirs.
LEMMA PutContent ==
  ASSUME NEW fs, NEW name, NEW content
  PROVE  /\ Put(fs, name, content)[name] = content
         /\ \A other \in DOMAIN fs : other # name => Put(fs, name, content)[other] = fs[other]
         /\ \A other : other \in DOMAIN Put(fs, name, content) <=> other \in DOMAIN fs \/ other = name
BY DEF Put

\* Some of the writes are to a file; whichever are give it one content.
Names(writes, name) == \E k \in DOMAIN writes : name \in DOMAIN writes[k]
Gives(writes, name, content) == \A k \in DOMAIN writes : name \in DOMAIN writes[k] => writes[k][name] = content

\* A file that all the writes to it give one content has it when all are made.
LEMMA PutAllContent ==
  ASSUME NEW fs, NEW writes, NEW n \in Nat, DOMAIN writes = 1..n,
         NEW name, NEW content, Names(writes, name), Gives(writes, name, content)
  PROVE  /\ name \in DOMAIN PutAll(fs, writes)
         /\ PutAll(fs, writes)[name] = content
<1> DEFINE T == {k \in DOMAIN writes : name \in DOMAIN writes[k]}
<1>1. T \in SUBSET Nat /\ T # {}
  BY DEF Names
<1>2. IsFiniteSet(T)
  <2>1. IsFiniteSet(1..n)
    BY FS_Interval
  <2> QED
    BY <2>1, FS_Subset
<1>3. Max(T) \in T
  <2> HIDE DEF T
  <2> QED
    BY <1>1, <1>2, GreatestNatural
<1>4. name \in DOMAIN fs \cup UNION {DOMAIN writes[k] : k \in DOMAIN writes}
  BY DEF Names
<1>5. name \in DOMAIN PutAll(fs, writes) /\ PutAll(fs, writes)[name] = writes[Max(T)][name]
  BY <1>1, <1>4 DEF PutAll
<1> QED
  BY <1>3, <1>5 DEF Gives

\* Writes that follow one another.
Listed(s) == s \in Seq({s[k] : k \in DOMAIN s})

\* A function on 1..n is a list of writes.
LEMMA ListedFunction ==
  ASSUME NEW n \in Nat, NEW s, s = [k \in 1..n |-> s[k]]
  PROVE  Listed(s) /\ DOMAIN s = 1..n /\ Len(s) = n
<1> DEFINE E == {s[k] : k \in 1..n}
<1>1. s \in [1..n -> E] /\ DOMAIN s = 1..n
  OBVIOUS
<1> HIDE DEF E
<1>2. s \in Seq(E)
  BY <1>1, SeqDef
<1>3. Len(s) = n
  BY <1>1, <1>2, LenProperties
<1> QED
  BY <1>1, <1>2, <1>3 DEF Listed, E

\* Writes that follow others: they name the files of both and give both contents.
LEMMA ListedConcat ==
  ASSUME NEW s, NEW t, Listed(s), Listed(t)
  PROVE  /\ Listed(s \o t)
         /\ \A name : Names(s \o t, name) <=> Names(s, name) \/ Names(t, name)
         /\ \A name, content : Gives(s, name, content) /\ Gives(t, name, content) => Gives(s \o t, name, content)
<1> DEFINE E == {s[k] : k \in DOMAIN s} \cup {t[k] : k \in DOMAIN t}
           m == Len(s)
           n == Len(t)
           st == s \o t
<1>1. s \in Seq(E) /\ t \in Seq(E)
  BY SeqMonotonic DEF Listed
<1> HIDE DEF E
<1>2. /\ m \in Nat /\ n \in Nat /\ DOMAIN s = 1..m /\ DOMAIN t = 1..n
  BY <1>1, LenProperties
<1>3. /\ st \in Seq(E) /\ Len(st) = m + n
      /\ \A k \in 1..m + n : st[k] = IF k <= m THEN s[k] ELSE t[k - m]
  BY <1>1, ConcatProperties
<1>4. DOMAIN st = 1..m + n /\ st \in [1..m + n -> E]
  BY <1>3, LenProperties
<1> HIDE DEF st, m, n
<1>5. Listed(st)
  <2>1. m + n \in Nat /\ st = [k \in 1..m + n |-> st[k]]
    BY <1>2, <1>4
  <2> QED
    BY <2>1, ListedFunction
<1>6. \A k \in DOMAIN st : (k \in DOMAIN s /\ st[k] = s[k]) \/ (k - m \in DOMAIN t /\ st[k] = t[k - m])
  BY <1>2, <1>3, <1>4
<1>7. \A k \in DOMAIN s : k \in DOMAIN st /\ st[k] = s[k]
  BY <1>2, <1>3, <1>4
<1>8. \A k \in DOMAIN t : k + m \in DOMAIN st /\ st[k + m] = t[k]
  <2> SUFFICES ASSUME NEW k \in DOMAIN t PROVE k + m \in DOMAIN st /\ st[k + m] = t[k]
    OBVIOUS
  <2>1. k + m \in 1..m + n /\ ~(k + m <= m) /\ (k + m) - m = k
    BY <1>2
  <2> QED
    BY <1>3, <1>4, <2>1
<1>9. ASSUME NEW name PROVE Names(st, name) <=> Names(s, name) \/ Names(t, name)
  BY <1>6, <1>7, <1>8 DEF Names
<1>10. ASSUME NEW name, NEW content, Gives(s, name, content), Gives(t, name, content)
       PROVE  Gives(st, name, content)
  BY <1>6, <1>10 DEF Gives
<1> QED
  BY <1>5, <1>9, <1>10 DEF st

\* What each part of the builder writes.
Certifications == CertificatesApply(b.certificates)
Mints == MintsApply(b.mints)
Inputs == InputsApply(b.inputs)
Withdrawn == <<WithdrawalApply(b.withdrawalData)>>
Described == <<MetadataFile>>

\* What each part writes is a list of writes.
LEMMA PartsAreListed ==
  ASSUME BuilderTypeOK
  PROVE  /\ Listed(Described) /\ Listed(Certifications) /\ Listed(Withdrawn)
         /\ Listed(Mints) /\ Listed(Inputs)
         /\ DOMAIN Certifications = 1..2 * Len(b.certificates)
         /\ DOMAIN b.certificates = 1..Len(b.certificates) /\ Len(b.certificates) \in Nat
         /\ b.mints.tokens # <<>> => DOMAIN Mints = DOMAIN b.mints.policyScripts
         /\ b.mints.tokens = <<>> => Mints = <<>>
         /\ DOMAIN Inputs = DOMAIN b.inputs
<1>1. /\ b.inputs \in Seq(BuilderInputs) /\ b.certificates \in Seq(BuilderCertificates)
      /\ b.mints.policyScripts \in Seq(Pointer)
  BY TypeOfBuilder DEF BuilderFields
<1>2. /\ DOMAIN b.inputs = 1..Len(b.inputs) /\ Len(b.inputs) \in Nat
      /\ DOMAIN b.certificates = 1..Len(b.certificates) /\ Len(b.certificates) \in Nat
      /\ DOMAIN b.mints.policyScripts = 1..Len(b.mints.policyScripts) /\ Len(b.mints.policyScripts) \in Nat
  BY <1>1, LenProperties
<1>3. ASSUME NEW e PROVE Listed(<<e>>)
  <2>1. <<e>> = [k \in 1..1 |-> <<e>>[k]]
    OBVIOUS
  <2> QED
    BY <2>1, ListedFunction
<1>4. Listed(Certifications) /\ DOMAIN Certifications = 1..2 * Len(b.certificates)
  <2>1. Certifications = [k \in 1..2 * Len(b.certificates) |-> Certifications[k]]
    BY DEF Certifications, CertificatesApply
  <2>2. 2 * Len(b.certificates) \in Nat
    BY <1>2
  <2> QED
    BY <2>1, <2>2, ListedFunction
<1>5. Listed(Inputs) /\ DOMAIN Inputs = DOMAIN b.inputs
  <2>1. Inputs = [k \in 1..Len(b.inputs) |-> Inputs[k]]
    BY <1>2 DEF Inputs, InputsApply
  <2> QED
    BY <1>2, <2>1, ListedFunction
<1>6. b.mints.tokens # <<>> => Listed(Mints) /\ DOMAIN Mints = DOMAIN b.mints.policyScripts
  <2> SUFFICES ASSUME b.mints.tokens # <<>> PROVE Listed(Mints) /\ DOMAIN Mints = DOMAIN b.mints.policyScripts
    OBVIOUS
  <2>1. Mints = [k \in 1..Len(b.mints.policyScripts) |-> Mints[k]]
    BY <1>2 DEF Mints, MintsApply
  <2> QED
    BY <1>2, <2>1, ListedFunction
<1>7. b.mints.tokens = <<>> => Listed(Mints) /\ Mints = <<>>
  <2>1. <<>> = [k \in 1..0 |-> <<>>[k]]
    OBVIOUS
  <2>2. Listed(<<>>)
    BY <2>1, ListedFunction
  <2> QED
    BY <2>2 DEF Mints, MintsApply
<1> QED
  BY <1>2, <1>3, <1>4, <1>5, <1>6, <1>7 DEF Described, Withdrawn

\* The writes are those of the parts.
LEMMA WritesOfParts ==
  ASSUME BuilderTypeOK
  PROVE  /\ Listed(Writes)
         /\ \A name : Names(Writes, name) <=> \/ Names(Described, name) \/ Names(Certifications, name)
                                              \/ Names(Withdrawn, name) \/ Names(Mints, name)
                                              \/ Names(Inputs, name)
         /\ \A name, content :
              /\ Gives(Described, name, content) /\ Gives(Certifications, name, content)
              /\ Gives(Withdrawn, name, content) /\ Gives(Mints, name, content)
              /\ Gives(Inputs, name, content)
              => Gives(Writes, name, content)
<1> DEFINE one == Described \o Certifications
           two == one \o Withdrawn
           three == two \o Mints
           four == three \o Inputs
<1>1. Writes = four
  BY DEF Writes, Described, Certifications, Withdrawn, Mints, Inputs
<1>2. Listed(one) /\ Listed(two) /\ Listed(three) /\ Listed(four)
  <2>1. Listed(one)
    BY PartsAreListed, ListedConcat
  <2> HIDE DEF one
  <2>2. Listed(two)
    BY <2>1, PartsAreListed, ListedConcat
  <2> HIDE DEF two
  <2>3. Listed(three)
    BY <2>2, PartsAreListed, ListedConcat
  <2> HIDE DEF three
  <2>4. Listed(four)
    BY <2>3, PartsAreListed, ListedConcat
  <2> QED
    BY <2>1, <2>2, <2>3, <2>4
<1>3. /\ \A name : Names(one, name) <=> Names(Described, name) \/ Names(Certifications, name)
      /\ \A name, content : Gives(Described, name, content) /\ Gives(Certifications, name, content)
           => Gives(one, name, content)
  BY PartsAreListed, ListedConcat
<1> HIDE DEF one
<1>4. /\ \A name : Names(two, name) <=> Names(one, name) \/ Names(Withdrawn, name)
      /\ \A name, content : Gives(one, name, content) /\ Gives(Withdrawn, name, content)
           => Gives(two, name, content)
  BY <1>2, PartsAreListed, ListedConcat
<1> HIDE DEF two
<1>5. /\ \A name : Names(three, name) <=> Names(two, name) \/ Names(Mints, name)
      /\ \A name, content : Gives(two, name, content) /\ Gives(Mints, name, content)
           => Gives(three, name, content)
  BY <1>2, PartsAreListed, ListedConcat
<1> HIDE DEF three
<1>6. /\ \A name : Names(four, name) <=> Names(three, name) \/ Names(Inputs, name)
      /\ \A name, content : Gives(three, name, content) /\ Gives(Inputs, name, content)
           => Gives(four, name, content)
  BY <1>2, PartsAreListed, ListedConcat
<1> HIDE DEF four
<1> QED
  BY <1>1, <1>2, <1>3, <1>4, <1>5, <1>6

\* The content that a file is meant to have.
Certified(i) == i \in DOMAIN b.certificates /\ b.certificates[i].certificate # Nil

Meant(name, content) ==
  \/ /\ b.metadata # Nil
     /\ name = File("metadata", 0) /\ content = b.metadata
  \/ \E i \in DOMAIN b.certificates :
       /\ Certified(i)
       /\ \/ name = File("certificate", i) /\ content = b.certificates[i].certificate
          \/ /\ b.certificates[i].policyScript # Nil
             /\ name = File("cert_policy", i) /\ content = ScriptOf[b.certificates[i].policyScript]
  \/ /\ b.withdrawalData.stakeAddress # Nil /\ b.withdrawalData.policyScript # Nil
     /\ name = File("policy_withdrawal", 0) /\ content = ScriptOf[b.withdrawalData.policyScript]
  \/ /\ b.mints.tokens # <<>>
     /\ \E i \in DOMAIN b.mints.policyScripts :
          name = File("ps_mint", i) /\ content = ScriptOf[b.mints.policyScripts[i]]
  \/ \E i \in DOMAIN b.inputs :
       /\ b.inputs[i].policyScript # Nil
       /\ name = File("ps", i) /\ content = ScriptOf[b.inputs[i].policyScript]

\* A file is meant to have one content.
LEMMA MeantOnce ==
  ASSUME NEW name, NEW c, NEW d, Meant(name, c), Meant(name, d)
  PROVE  c = d
BY DEF File, Meant

\* A single file has its name and its content.
LEMMA SingleFile ==
  ASSUME NEW name, NEW content
  PROVE  /\ \A other : other \in DOMAIN Single(name, content) <=> other = name
         /\ Single(name, content)[name] = content
BY DEF Single

\* ScriptFile writes the script that is given, and nothing when there is none.
LEMMA ScriptFiles ==
  ASSUME NEW name, NEW script
  PROVE  /\ \A other : other \in DOMAIN ScriptFile(name, script) <=> script # Nil /\ other = name
         /\ script # Nil => ScriptFile(name, script)[name] = ScriptOf[script]
<1>1. DOMAIN NoFile = {}
  BY DEF NoFile
<1> QED
  BY <1>1, SingleFile DEF ScriptFile

\* Of the two writes for certificate i the first is the certificate, the second its script.
LEMMA CertificateWrites ==
  ASSUME BuilderTypeOK, NEW i \in DOMAIN b.certificates
  PROVE  /\ 2 * i - 1 \in DOMAIN Certifications /\ 2 * i \in DOMAIN Certifications
         /\ Certifications[2 * i - 1] = CertificateApply(b.certificates[i], i)[1]
         /\ Certifications[2 * i] = CertificateApply(b.certificates[i], i)[2]
<1> DEFINE n == Len(b.certificates)
<1>1. n \in Nat /\ DOMAIN b.certificates = 1..n /\ DOMAIN Certifications = 1..2 * n
  BY PartsAreListed
<1>2. /\ 2 * i - 1 \in 1..2 * n /\ 2 * i \in 1..2 * n
      /\ ((2 * i - 1) + 1) \div 2 = i /\ (2 * i + 1) \div 2 = i
      /\ 2 - ((2 * i - 1) % 2) = 1 /\ 2 - ((2 * i) % 2) = 2
  <2>1. i \in Nat /\ i >= 1 /\ i <= n /\ n \in Nat
    BY <1>1
  <2> HIDE DEF n
  <2>2. 2 * i - 1 \in 1..2 * n /\ 2 * i \in 1..2 * n
    BY <2>1
  <2>3. ((2 * i - 1) + 1) \div 2 = i /\ (2 * i + 1) \div 2 = i
    BY <2>1
  <2>4. 2 - ((2 * i - 1) % 2) = 1
    BY <2>1
  <2>5. 2 - ((2 * i) % 2) = 2
    BY <2>1
  <2> QED
    BY <2>2, <2>3, <2>4, <2>5
<1>3. \A k \in 1..2 * n : Certifications[k] =
        CertificateApply(b.certificates[(k + 1) \div 2], (k + 1) \div 2)[2 - (k % 2)]
  BY DEF Certifications, CertificatesApply
<1> QED
  BY <1>1, <1>2, <1>3

\* Every write for the certificates is one of the two of some certificate.
LEMMA CertificateOfWrite ==
  ASSUME BuilderTypeOK, NEW k \in DOMAIN Certifications
  PROVE  \E i \in DOMAIN b.certificates : k = 2 * i - 1 \/ k = 2 * i
<1> DEFINE n == Len(b.certificates)
           i == (k + 1) \div 2
<1>1. n \in Nat /\ DOMAIN b.certificates = 1..n /\ DOMAIN Certifications = 1..2 * n
  BY PartsAreListed
<1>2. i \in 1..n /\ (k = 2 * i - 1 \/ k = 2 * i)
  BY <1>1, SMTT(30)
<1> QED
  BY <1>1, <1>2

\* The two writes of a certificate are its file and the file of its script.
LEMMA FilesOfCertificate ==
  ASSUME BuilderTypeOK, NEW i \in DOMAIN b.certificates
  PROVE  LET one == CertificateApply(b.certificates[i], i)[1]
             two == CertificateApply(b.certificates[i], i)[2]
         IN  /\ \A other : other \in DOMAIN one <=> Certified(i) /\ other = File("certificate", i)
             /\ ~Certified(i) => \A other : other \notin DOMAIN two
             /\ Certified(i) => /\ one[File("certificate", i)] = b.certificates[i].certificate
                                /\ two = ScriptFile(File("cert_policy", i), b.certificates[i].policyScript)
<1>1. DOMAIN NoFile = {}
  BY DEF NoFile
<1>2. CASE ~Certified(i)
  BY <1>1, <1>2 DEF Certified, CertificateApply
<1>3. CASE Certified(i)
  BY <1>3, SingleFile DEF Certified, CertificateApply
<1> QED
  BY <1>2, <1>3

\* What is written is what is meant.
LEMMA WrittenIsMeant ==
  ASSUME BuilderTypeOK, NEW name, NEW content, Meant(name, content)
  PROVE  Gives(Writes, name, content)
<1> DEFINE Right(s) == \A k \in DOMAIN s : \A other \in DOMAIN s[k] : Meant(other, s[k][other])
<1>1. Right(Described)
  <2> SUFFICES ASSUME NEW other \in DOMAIN MetadataFile PROVE Meant(other, MetadataFile[other])
    BY DEF Described
  <2>1. b.metadata # Nil
    BY DEF MetadataFile, NoFile
  <2>2. other = File("metadata", 0) /\ MetadataFile[other] = b.metadata
    BY <2>1, SingleFile DEF MetadataFile
  <2> QED
    BY <2>1, <2>2 DEF Meant
<1>2. Right(Certifications)
  <2> SUFFICES ASSUME NEW k \in DOMAIN Certifications, NEW other \in DOMAIN Certifications[k]
               PROVE  Meant(other, Certifications[k][other])
    OBVIOUS
  <2>1. PICK i \in DOMAIN b.certificates : k = 2 * i - 1 \/ k = 2 * i
    BY CertificateOfWrite
  <2>2. /\ Certifications[2 * i - 1] = CertificateApply(b.certificates[i], i)[1]
        /\ Certifications[2 * i] = CertificateApply(b.certificates[i], i)[2]
    BY CertificateWrites
  <2>3. Certified(i)
    BY <2>1, <2>2, FilesOfCertificate
  <2>4. CASE k = 2 * i - 1
    <3>1. other = File("certificate", i) /\ Certifications[k][other] = b.certificates[i].certificate
      BY <2>2, <2>3, <2>4, FilesOfCertificate
    <3> QED
      BY <2>3, <3>1 DEF Meant
  <2>5. CASE k = 2 * i
    <3>1. Certifications[k] = ScriptFile(File("cert_policy", i), b.certificates[i].policyScript)
      BY <2>2, <2>3, <2>5, FilesOfCertificate
    <3>2. /\ b.certificates[i].policyScript # Nil /\ other = File("cert_policy", i)
          /\ Certifications[k][other] = ScriptOf[b.certificates[i].policyScript]
      BY <3>1, ScriptFiles
    <3> QED
      BY <2>3, <3>2 DEF Meant
  <2> QED
    BY <2>1, <2>4, <2>5
<1>3. Right(Withdrawn)
  <2> DEFINE file == WithdrawalApply(b.withdrawalData)
  <2> SUFFICES ASSUME NEW other \in DOMAIN file PROVE Meant(other, file[other])
    BY DEF Withdrawn
  <2>1. b.withdrawalData.stakeAddress # Nil
    BY DEF WithdrawalApply, NoFile
  <2>2. file = ScriptFile(File("policy_withdrawal", 0), b.withdrawalData.policyScript)
    BY <2>1 DEF WithdrawalApply
  <2> HIDE DEF file
  <2>3. /\ b.withdrawalData.policyScript # Nil /\ other = File("policy_withdrawal", 0)
        /\ file[other] = ScriptOf[b.withdrawalData.policyScript]
    BY <2>2, ScriptFiles
  <2> QED
    BY <2>1, <2>3 DEF Meant
<1>4. Right(Mints)
  <2> SUFFICES ASSUME NEW i \in DOMAIN Mints, NEW other \in DOMAIN Mints[i] PROVE Meant(other, Mints[i][other])
    OBVIOUS
  <2>1. b.mints.tokens # <<>>
    BY PartsAreListed
  <2>2. i \in DOMAIN b.mints.policyScripts
        /\ Mints[i] = Single(File("ps_mint", i), ScriptOf[b.mints.policyScripts[i]])
    BY <2>1, PartsAreListed DEF Mints, MintsApply
  <2>3. other = File("ps_mint", i) /\ Mints[i][other] = ScriptOf[b.mints.policyScripts[i]]
    BY <2>2, SingleFile
  <2> QED
    BY <2>1, <2>2, <2>3 DEF Meant
<1>5. Right(Inputs)
  <2> SUFFICES ASSUME NEW i \in DOMAIN Inputs, NEW other \in DOMAIN Inputs[i] PROVE Meant(other, Inputs[i][other])
    OBVIOUS
  <2>1. i \in DOMAIN b.inputs /\ Inputs[i] = ScriptFile(File("ps", i), b.inputs[i].policyScript)
    BY PartsAreListed DEF Inputs, InputsApply
  <2>2. /\ b.inputs[i].policyScript # Nil /\ other = File("ps", i)
        /\ Inputs[i][other] = ScriptOf[b.inputs[i].policyScript]
    BY <2>1, ScriptFiles
  <2> QED
    BY <2>1, <2>2 DEF Meant
<1>6. ASSUME NEW s, Right(s) PROVE Gives(s, name, content)
  BY <1>6, MeantOnce DEF Gives
<1> HIDE DEF Right
<1> QED
  BY <1>1, <1>2, <1>3, <1>4, <1>5, <1>6, WritesOfParts

\* Every file that is meant is written.
LEMMA MeantIsWritten ==
  ASSUME BuilderTypeOK, NEW name, NEW content, Meant(name, content)
  PROVE  Names(Writes, name)
<1>1. CASE b.metadata # Nil /\ name = File("metadata", 0)
  <2>1. name \in DOMAIN MetadataFile
    BY <1>1, SingleFile DEF MetadataFile
  <2>2. Names(Described, name)
    BY <2>1 DEF Names, Described
  <2> QED
    BY <2>2, WritesOfParts
<1>2. ASSUME NEW i \in DOMAIN b.certificates, Certified(i), name = File("certificate", i) PROVE Names(Writes, name)
  <2>1. name \in DOMAIN Certifications[2 * i - 1] /\ 2 * i - 1 \in DOMAIN Certifications
    BY <1>2, CertificateWrites, FilesOfCertificate
  <2>2. Names(Certifications, name)
    BY <2>1 DEF Names
  <2> QED
    BY <2>2, WritesOfParts
<1>3. ASSUME NEW i \in DOMAIN b.certificates, Certified(i),
             b.certificates[i].policyScript # Nil, name = File("cert_policy", i)
      PROVE  Names(Writes, name)
  <2>1. 2 * i \in DOMAIN Certifications
        /\ Certifications[2 * i] = ScriptFile(File("cert_policy", i), b.certificates[i].policyScript)
    BY <1>3, CertificateWrites, FilesOfCertificate
  <2>2. name \in DOMAIN Certifications[2 * i]
    BY <1>3, <2>1, ScriptFiles
  <2>3. Names(Certifications, name)
    BY <2>1, <2>2 DEF Names
  <2> QED
    BY <2>3, WritesOfParts
<1>4. CASE /\ b.withdrawalData.stakeAddress # Nil /\ b.withdrawalData.policyScript # Nil
           /\ name = File("policy_withdrawal", 0)
  <2>1. name \in DOMAIN WithdrawalApply(b.withdrawalData)
    BY <1>4, ScriptFiles DEF WithdrawalApply
  <2>2. Names(Withdrawn, name)
    BY <2>1 DEF Names, Withdrawn
  <2> QED
    BY <2>2, WritesOfParts
<1>5. ASSUME b.mints.tokens # <<>>, NEW i \in DOMAIN b.mints.policyScripts, name = File("ps_mint", i)
      PROVE  Names(Writes, name)
  <2>1. i \in DOMAIN Mints /\ Mints[i] = Single(File("ps_mint", i), ScriptOf[b.mints.policyScripts[i]])
    BY <1>5, PartsAreListed DEF Mints, MintsApply
  <2>2. name \in DOMAIN Mints[i]
    BY <1>5, <2>1, SingleFile
  <2>3. Names(Mints, name)
    BY <2>1, <2>2 DEF Names
  <2> QED
    BY <2>3, WritesOfParts
<1>6. ASSUME NEW i \in DOMAIN b.inputs, b.inputs[i].policyScript # Nil, name = File("ps", i)
      PROVE  Names(Writes, name)
  <2>1. i \in DOMAIN Inputs /\ Inputs[i] = ScriptFile(File("ps", i), b.inputs[i].policyScript)
    BY PartsAreListed DEF Inputs, InputsApply
  <2>2. name \in DOMAIN Inputs[i]
    BY <1>6, <2>1, ScriptFiles
  <2>3. Names(Inputs, name)
    BY <2>1, <2>2 DEF Names
  <2> QED
    BY <2>3, WritesOfParts
<1> QED
  BY <1>1, <1>2, <1>3, <1>4, <1>5, <1>6 DEF Meant

\* Once all the writes are made the files are as meant, whatever the directory held.
LEMMA FilesAreAsMeant ==
  ASSUME BuilderTypeOK, NEW fs, NEW name, NEW content, Meant(name, content)
  PROVE  PutAll(fs, SubSeq(Writes, 1, Len(Writes)))[name] = content
<1>1. /\ SubSeq(Writes, 1, Len(Writes)) = Writes
      /\ Len(Writes) \in Nat /\ DOMAIN Writes = 1..Len(Writes)
  BY WritesOfParts, SubSeqFull, LenProperties DEF Listed
<1> QED
  BY <1>1, WrittenIsMeant, MeantIsWritten, PutAllContent

\* The transaction made of files that are as meant is the transaction that is meant.
LEMMA BodyOfFiles ==
  ASSUME NEW fee, NEW fs, \A name, content : Meant(name, content) => fs[name] = content
  PROVE  BodyInFiles(fee, fs) = BodyMeant(fee)
<1>1. b.metadata # Nil => fs[File("metadata", 0)] = b.metadata
  BY DEF Meant
<1>2. \A i \in DOMAIN b.certificates : Certified(i) =>
        /\ fs[File("certificate", i)] = b.certificates[i].certificate
        /\ b.certificates[i].policyScript # Nil =>
             fs[File("cert_policy", i)] = ScriptOf[b.certificates[i].policyScript]
  BY DEF Meant
<1>3. b.withdrawalData.stakeAddress # Nil /\ b.withdrawalData.policyScript # Nil =>
        fs[File("policy_withdrawal", 0)] = ScriptOf[b.withdrawalData.policyScript]
  BY DEF Meant
<1>4. b.mints.tokens # <<>> =>
        \A i \in DOMAIN b.mints.policyScripts : fs[File("ps_mint", i)] = ScriptOf[b.mints.policyScripts[i]]
  BY DEF Meant
<1>5. \A i \in DOMAIN b.inputs : b.inputs[i].policyScript # Nil =>
        fs[File("ps", i)] = ScriptOf[b.inputs[i].policyScript]
  BY DEF Meant
<1> QED
  BY <1>1, <1>2, <1>3, <1>4, <1>5 DEF BodyInFiles, BodyMeant, Body, Certified

-----------------------------------------------------------------------------
(* The witnesses *)

\* The state of the call after each signer follows from the one before.
LEMMA WitnessedInTurn ==
  ASSUME NEW tx, NEW signers \in Seq(Key), NEW outcomes
  PROVE  LET made == Witnessed(tx, signers, outcomes)
         IN  /\ made[0] = [ok |-> TRUE, files |-> files]
             /\ \A k \in 1..Len(signers) :
                  made[k] = IF made[k - 1].ok THEN CreateTxWitness(tx, signers[k], made[k - 1].files, outcomes[k])
                            ELSE made[k - 1]
<1> DEFINE n == Len(signers)
           Start == [ok |-> TRUE, files |-> files]
           After(before, k) == IF before.ok THEN CreateTxWitness(tx, signers[k], before.files, outcomes[k])
                               ELSE before
           Is(g, m) == g = [k \in 0..m |-> IF k = 0 THEN Start ELSE After(g[k - 1], k)]
           N == {m \in Nat : ~\E g : Is(g, m)}
<1>1. n \in Nat
  BY LenProperties
<1> HIDE DEF n, Start, After
<1>2. 0 \notin N
  <2> DEFINE g == [k \in 0..0 |-> Start]
  <2>1. Is(g, 0)
    BY SMT
  <2> QED
    BY <2>1
<1>3. ASSUME NEW m \in Nat, NEW g, Is(g, m) PROVE m + 1 \notin N
  <2> DEFINE h == [k \in 0..m + 1 |-> IF k = m + 1 THEN After(g[m], m + 1) ELSE g[k]]
  <2>1. ASSUME NEW k \in 0..m + 1 PROVE h[k] = IF k = 0 THEN Start ELSE After(h[k - 1], k)
    <3>1. CASE k = 0
      <4>1. h[k] = g[k] /\ k \in 0..m
        BY <3>1
      <4> QED
        BY <1>3, <3>1, <4>1
    <3>2. CASE k = m + 1
      <4>1. h[k] = After(g[m], k) /\ h[k - 1] = g[m] /\ k # 0
        BY <3>2
      <4> HIDE DEF h
      <4> QED
        BY <4>1
    <3>3. CASE k # 0 /\ k # m + 1
      <4>1. h[k] = g[k] /\ h[k - 1] = g[k - 1] /\ k \in 0..m
        BY <3>3
      <4> HIDE DEF h
      <4>2. g[k] = After(g[k - 1], k)
        BY <1>3, <3>3, <4>1
      <4> QED
        BY <3>3, <4>1, <4>2
    <3> QED
      BY <3>1, <3>2, <3>3
  <2>2. DOMAIN h = 0..m + 1 /\ h = [k \in 0..m + 1 |-> h[k]]
    OBVIOUS
  <2> HIDE DEF h
  <2>3. Is(h, m + 1)
    BY <2>1, <2>2
  <2> HIDE DEF Is
  <2> QED
    BY <2>3
<1> HIDE DEF Is
<1>4. N = {}
  <2> SUFFICES ASSUME N # {} PROVE FALSE
    OBVIOUS
  <2>1. PICK m \in N : \A k \in N : m <= k
    BY LeastNatural
  <2>2. m # 0 /\ m - 1 \in Nat /\ (m - 1) + 1 = m
    BY <1>2
  <2>3. m - 1 \notin N
    BY <2>1, <2>2
  <2> QED
    BY <1>3, <2>1, <2>2, <2>3
<1>5. Is(Witnessed(tx, signers, outcomes), n)
  <2>1. Witnessed(tx, signers, outcomes) = CHOOSE g : Is(g, n)
    BY DEF Witnessed, Is, n, Start, After
  <2>2. \E g : Is(g, n)
    BY <1>1, <1>4
  <2> QED
    BY <2>1, <2>2
<1> DEFINE made == Witnessed(tx, signers, outcomes)
<1>6. made[0] = Start /\ \A k \in 1..n : made[k] = After(made[k - 1], k)
  <2> HIDE DEF made
  <2>1. made = [k \in 0..n |-> IF k = 0 THEN Start ELSE After(made[k - 1], k)]
    BY <1>5 DEF made, Is
  <2> QED
    BY <1>1, <2>1
<1> QED
  BY <1>6 DEF made, n, Start, After

\* A witness that is made is of the transaction and of the key it was asked for.
LEMMA WitnessOfKey ==
  ASSUME NEW tx, NEW key, NEW fs, NEW ran, CreateTxWitness(tx, key, fs, ran).ok
  PROVE  CreateTxWitness(tx, key, fs, ran).files[File("tx.wit", 0)] = [tx |-> tx, key |-> key]
<1> DEFINE raw == Put(fs, File("tx.raw", 0), tx)
           given == Put(raw, File("tx.skey", 0), key)
           witness == [tx |-> given[File("tx.raw", 0)], key |-> given[File("tx.skey", 0)]]
<1>1. File("tx.raw", 0) # File("tx.skey", 0)
  BY DEF File
<1>2. raw[File("tx.raw", 0)] = tx /\ File("tx.raw", 0) \in DOMAIN raw
  BY PutContent
<1> HIDE DEF raw
<1>3. given[File("tx.raw", 0)] = tx /\ given[File("tx.skey", 0)] = key
  BY <1>1, <1>2, PutContent
<1>4. CreateTxWitness(tx, key, fs, ran)
        = IF ran = "failed" THEN [ok |-> FALSE, files |-> given]
          ELSE [ok |-> ran = "ok", files |-> Put(given, File("tx.wit", 0), witness)]
  BY DEF CreateTxWitness, raw
<1> HIDE DEF given
<1>5. CreateTxWitness(tx, key, fs, ran).files = Put(given, File("tx.wit", 0), witness)
  BY <1>4
<1>6. witness = [tx |-> tx, key |-> key]
  BY <1>3
<1> QED
  BY <1>5, <1>6, PutContent

\* When the last signer has signed, every signer has, with their own key.
LEMMA EveryWitness ==
  ASSUME NEW tx, NEW signers \in Seq(Key), NEW outcomes,
         Witnessed(tx, signers, outcomes)[Len(signers)].ok
  PROVE  \A k \in 1..Len(signers) :
           Witnessed(tx, signers, outcomes)[k].files[File("tx.wit", 0)] = [tx |-> tx, key |-> signers[k]]
<1> DEFINE made == Witnessed(tx, signers, outcomes)
           n == Len(signers)
<1>1. n \in Nat
  BY LenProperties
<1>2. \A k \in 1..n :
        made[k] = IF made[k - 1].ok THEN CreateTxWitness(tx, signers[k], made[k - 1].files, outcomes[k])
                  ELSE made[k - 1]
  BY WitnessedInTurn
<1>3. made[n].ok
  OBVIOUS
<1> HIDE DEF made, n
<1>4. ASSUME NEW k \in 0..n PROVE made[k].ok
  <2> DEFINE N == {m \in Nat : m >= k /\ m <= n /\ made[m].ok}
  <2>1. N \in SUBSET Nat /\ n \in N
    BY <1>1, <1>3
  <2>2. PICK m \in N : \A j \in N : m <= j
    BY <2>1, LeastNatural
  <2>3. CASE m = k
    BY <2>3
  <2>4. CASE m # k
    <3>1. m \in 1..n /\ m - 1 \in Nat /\ m - 1 >= k /\ m - 1 <= n /\ ~(m <= m - 1)
      BY <1>1, <2>4
    <3>2. ~made[m - 1].ok
      BY <2>2, <3>1
    <3>3. made[m] = made[m - 1]
      BY <1>2, <3>1, <3>2
    <3> QED
      BY <3>2, <3>3
  <2> QED
    BY <2>3, <2>4
<1>5. ASSUME NEW k \in 1..n
      PROVE  made[k].files[File("tx.wit", 0)] = [tx |-> tx, key |-> signers[k]]
  <2>1. made[k - 1].ok /\ made[k].ok
    BY <1>1, <1>4
  <2> DEFINE fs == made[k - 1].files
             key == signers[k]
             ran == outcomes[k]
  <2>2. made[k] = CreateTxWitness(tx, key, fs, ran)
    BY <1>2, <2>1
  <2> HIDE DEF fs, key, ran
  <2> QED
    BY <2>1, <2>2, WitnessOfKey DEF key
<1> QED
  BY <1>5 DEF made, n

\* What is assembled is the transaction with its witnesses in the order given.
LEMMA AssembledTx ==
  ASSUME NEW tx, NEW n \in Nat, NEW witnesses, DOMAIN witnesses = 1..n, NEW fs, NEW ran,
         AssembleTxWitnesses(tx, witnesses, fs, ran).ok
  PROVE  AssembleTxWitnesses(tx, witnesses, fs, ran).files[File("tx.sig", 0)]
           = [tx |-> tx, witnesses |-> [i \in 1..n |-> witnesses[i]]]
<1> DEFINE writes == [i \in DOMAIN witnesses |-> Single(File("witness", i), witnesses[i])]
           all == PutAll(fs, writes)
           given == Put(all, File("tx.raw", 0), tx)
           signed == [tx |-> given[File("tx.raw", 0)],
                      witnesses |-> [i \in DOMAIN witnesses |-> given[File("witness", i)]]]
<1>1. ASSUME NEW i \in 1..n PROVE File("witness", i) \in DOMAIN all /\ all[File("witness", i)] = witnesses[i]
  <2>1. DOMAIN writes = 1..n
    OBVIOUS
  <2>2. Names(writes, File("witness", i))
    <3>1. writes[i] = Single(File("witness", i), witnesses[i])
      OBVIOUS
    <3> HIDE DEF writes
    <3> QED
      BY <2>1, <3>1, SingleFile DEF Names
  <2>3. Gives(writes, File("witness", i), witnesses[i])
    <3>1. \A k \in 1..n : writes[k] = Single(File("witness", k), witnesses[k])
      OBVIOUS
    <3>2. \A k : File("witness", i) = File("witness", k) => i = k
      BY DEF File
    <3> HIDE DEF writes
    <3> QED
      BY <2>1, <3>1, <3>2, SingleFile DEF Gives
  <2> HIDE DEF writes
  <2> DEFINE name == File("witness", i)
             content == witnesses[i]
  <2>4. Names(writes, name) /\ Gives(writes, name, content)
    BY <2>2, <2>3
  <2> HIDE DEF name, content
  <2>5. name \in DOMAIN all /\ all[name] = content
    BY <2>1, <2>4, PutAllContent
  <2> QED
    BY <2>5 DEF name, content
<1> HIDE DEF writes
<1>2. AssembleTxWitnesses(tx, witnesses, fs, ran)
        = IF ran = "failed" THEN [ok |-> FALSE, files |-> given]
          ELSE [ok |-> ran = "ok", files |-> Put(given, File("tx.sig", 0), signed)]
  BY DEF AssembleTxWitnesses, writes
<1> HIDE DEF all
<1>3. given[File("tx.raw", 0)] = tx
  BY PutContent
<1>4. ASSUME NEW i \in 1..n PROVE given[File("witness", i)] = witnesses[i]
  <2>1. File("witness", i) # File("tx.raw", 0)
    BY DEF File
  <2> QED
    BY <1>1, <2>1, PutContent
<1> HIDE DEF given
<1>5. AssembleTxWitnesses(tx, witnesses, fs, ran).files = Put(given, File("tx.sig", 0), signed)
  BY <1>2
<1>6. signed = [tx |-> tx, witnesses |-> [i \in 1..n |-> witnesses[i]]]
  BY <1>3, <1>4
<1> HIDE DEF signed
<1>7. Put(given, File("tx.sig", 0), signed)[File("tx.sig", 0)] = signed
  BY PutContent
<1> QED
  BY <1>5, <1>6, <1>7

-----------------------------------------------------------------------------
(* Results *)

\* When buildRawTx succeeds its draft is the transaction that is meant.
LEMMA DraftIsMeant ==
  ASSUME BuilderTypeOK, NEW fee, NEW n \in 0..Len(Writes), NEW ran, buildRawTx(fee, n, ran).ok
  PROVE  buildRawTx(fee, n, ran).files[Draft] = BodyMeant(fee)
<1> DEFINE params == Put(files, File("protocol-parameters", 0), b.protocolParameters)
           fs == PutAll(params, SubSeq(Writes, 1, n))
           body == BodyInFiles(fee, fs)
           stopped == n < Len(Writes) \/ ran = "failed"
<1>1. buildRawTx(fee, n, ran) = IF stopped THEN [ok |-> FALSE, files |-> fs]
                                    ELSE [ok |-> ran = "ok", files |-> Put(fs, Draft, body)]
  BY DEF buildRawTx
<1>2. Len(Writes) \in Nat
  BY WritesOfParts, LenProperties DEF Listed
<1>3. ~stopped
  <2> HIDE DEF fs, body, stopped
  <2> QED
    BY <1>1
<1>4. n = Len(Writes)
  BY <1>2, <1>3
<1>5. \A name, content : Meant(name, content) => fs[name] = content
  <2> HIDE DEF params
  <2> QED
    BY <1>4, FilesAreAsMeant
<1> HIDE DEF fs
<1>6. body = BodyMeant(fee)
  BY <1>5, BodyOfFiles
<1> HIDE DEF body, stopped
<1>7. buildRawTx(fee, n, ran).files = Put(fs, Draft, body)
  BY <1>1, <1>3
<1> QED
  BY <1>6, <1>7, PutContent

\* What the builder and the last result say about each other.
Answered ==
  last.ok =>
    /\ last.op = "build" => last.tx = BodyMeant(b.fee) /\ last.hash = last.tx
    /\ last.op = "fee" => /\ last.tx = BodyMeant(0)
                          /\ last.given = 0 => last.witnesses = CountedWitnesses
    /\ last.op = "sign" =>
         last.signed = [tx |-> last.tx,
                        witnesses |-> [i \in DOMAIN last.signers |->
                                         [tx |-> last.tx, key |-> last.signers[i]]]]

ResultCounted == last # NoCall => Answered

\* A result that depends on the fields as they were before the call, which it left alone.
LEMMA BuildAnswers ==
  ASSUME BuilderTypeOK, NEW n \in 0..Len(Writes), NEW o, NEW a, Build(n, o, a)
  PROVE  last'.ok => /\ last'.op = "build" /\ last'.tx = BodyMeant(b.fee) /\ last'.hash = last'.tx
<1> SUFFICES ASSUME last'.ok
             PROVE  last'.op = "build" /\ last'.tx = BodyMeant(b.fee) /\ last'.hash = last'.tx
  OBVIOUS
<1> DEFINE raw == buildRawTx(b.fee, n, o)
           tx == raw.files[Draft]
           ok == raw.ok /\ a = "ok"
           other == File("tx.tmp", 0)
<1> HIDE DEF raw, other
<1>1. ~(b.protocolParameters = Nil \/ ~CheckOutputs)
  BY DEF Build, Call
<1>2. /\ files' = IF raw.ok THEN Put(raw.files, other, tx) ELSE raw.files
      /\ last' = IF ok THEN [op |-> "build", ok |-> TRUE, tx |-> tx, hash |-> files'[other]]
                 ELSE [op |-> "build", ok |-> FALSE]
  BY <1>1 DEF Build, Call, raw, other
<1> HIDE DEF tx
<1>3. raw.ok /\ last' = [op |-> "build", ok |-> TRUE, tx |-> tx, hash |-> files'[other]]
  BY <1>2
<1>4. files'[other] = tx
  <2>1. files' = Put(raw.files, other, tx)
    BY <1>2, <1>3
  <2> QED
    BY <2>1, PutContent
<1>5. tx = BodyMeant(b.fee)
  BY <1>3, DraftIsMeant DEF raw, tx
<1> QED
  BY <1>3, <1>4, <1>5

\* What CalculateFee prices is the transaction without a fee, for the witnesses it counts.
LEMMA FeeAnswers ==
  ASSUME BuilderTypeOK, NEW n \in 0..Len(Writes), NEW o, NEW a, NEW count, CalculateFee(count, n, o, a)
  PROVE  last'.ok => /\ last'.op = "fee" /\ last'.tx = BodyMeant(0)
                     /\ last'.given = 0 => last'.witnesses = CountedWitnesses
<1> SUFFICES ASSUME last'.ok
             PROVE  /\ last'.op = "fee" /\ last'.tx = BodyMeant(0)
                    /\ last'.given = 0 => last'.witnesses = CountedWitnesses
  OBVIOUS
<1> DEFINE raw == buildRawTx(0, n, o)
           tx == raw.files[Draft]
           ok == raw.ok /\ a = "ok"
           paid == IF count = 0 THEN CountedWitnesses ELSE count
<1> HIDE DEF raw
<1>1. b.protocolParameters # Nil
  BY DEF CalculateFee, Call
<1>2. last' = IF ok THEN [op |-> "fee", ok |-> TRUE, tx |-> tx, given |-> count, witnesses |-> paid]
              ELSE [op |-> "fee", ok |-> FALSE]
  BY <1>1 DEF CalculateFee, Call, raw
<1> HIDE DEF tx, paid
<1>3. raw.ok /\ last' = [op |-> "fee", ok |-> TRUE, tx |-> tx, given |-> count, witnesses |-> paid]
  BY <1>2
<1>4. tx = BodyMeant(0)
  BY <1>3, DraftIsMeant DEF raw, tx
<1> QED
  BY <1>3, <1>4 DEF paid

\* What SignTx returns has the witness of every signer.
LEMMA SignAnswers ==
  ASSUME NEW tx, NEW signers \in Seq(Key), NEW os, NEW o, SignTx(tx, signers, os, o)
  PROVE  last'.ok =>
           /\ last'.op = "sign"
           /\ last'.signed = [tx |-> last'.tx,
                              witnesses |-> [i \in DOMAIN last'.signers |->
                                               [tx |-> last'.tx, key |-> last'.signers[i]]]]
<1> SUFFICES ASSUME last'.ok
             PROVE  /\ last'.op = "sign"
                    /\ last'.signed = [tx |-> last'.tx,
                                       witnesses |-> [i \in DOMAIN last'.signers |->
                                                        [tx |-> last'.tx, key |-> last'.signers[i]]]]
  OBVIOUS
<1> DEFINE n == Len(signers)
           made == Witnessed(tx, signers, os)
           witnesses == [k \in DOMAIN signers |-> made[k].files[File("tx.wit", 0)]]
           assembled == AssembleTxWitnesses(tx, witnesses, made[n].files, o)
           final == IF made[n].ok THEN assembled ELSE made[n]
<1>1. n \in Nat /\ DOMAIN signers = 1..n
  BY LenProperties
<1>2. last' = IF final.ok THEN [op |-> "sign", ok |-> TRUE, tx |-> tx, signers |-> signers,
                                signed |-> final.files[File("tx.sig", 0)]]
              ELSE [op |-> "sign", ok |-> FALSE]
  BY DEF SignTx, Call
<1>3. /\ made[n].ok /\ assembled.ok
      /\ last' = [op |-> "sign", ok |-> TRUE, tx |-> tx, signers |-> signers,
                  signed |-> assembled.files[File("tx.sig", 0)]]
  <2> HIDE DEF made, assembled, n
  <2> QED
    BY <1>2
<1>4. \A k \in 1..n : witnesses[k] = [tx |-> tx, key |-> signers[k]]
  <2>1. \A k \in 1..n : made[k].files[File("tx.wit", 0)] = [tx |-> tx, key |-> signers[k]]
    BY <1>3, EveryWitness
  <2> HIDE DEF made, n
  <2> QED
    BY <1>1, <2>1
<1>5. DOMAIN witnesses = 1..n
  <2> HIDE DEF made, n
  <2> QED
    BY <1>1
<1> DEFINE start == made[n].files
<1>6. assembled = AssembleTxWitnesses(tx, witnesses, start, o)
  OBVIOUS
<1> HIDE DEF witnesses, start, made, n
<1>7. assembled.files[File("tx.sig", 0)] = [tx |-> tx, witnesses |-> [i \in 1..n |-> witnesses[i]]]
  <2>1. AssembleTxWitnesses(tx, witnesses, start, o).ok
    BY <1>3, <1>6
  <2> QED
    BY <1>1, <1>5, <1>6, <2>1, AssembledTx
<1>8. [i \in 1..n |-> witnesses[i]] = [i \in 1..n |-> [tx |-> tx, key |-> signers[i]]]
  BY <1>4
<1> HIDE DEF assembled, final
<1> QED
  BY <1>1, <1>3, <1>7, <1>8

\* Every step keeps what results say.
LEMMA ResultStep ==
  ASSUME BuilderTypeOK, ResultCounted, [BuilderNext]_builderVars
  PROVE  ResultCounted'
<1>1. CASE Setters
  <2>1. last' = NoCall
    BY <1>1 DEF Setters, SetProtocolParameters, SetMetaData, SetFee, AddInputs, AddInputsWithScript,
                AddInputsWithScripts, AddOutputs, ReplaceOutput, UpdateOutputAmount, RemoveOutput,
                AddTokenMints, SetWithdrawalData, AddCertificates, Set
  <2> QED
    BY <2>1 DEF ResultCounted
<1>2. CASE Operations
  <2>1. b' = b /\ amounts' = amounts
    BY <1>2, OperationsKeepFields
  <2>2. /\ BodyMeant(b.fee)' = BodyMeant(b.fee) /\ BodyMeant(0)' = BodyMeant(0)
        /\ CountedWitnesses' = CountedWitnesses
    BY <2>1 DEF BodyMeant, Body, CountedWitnesses
  <2>3. CASE \E n \in 0..Len(Writes), o \in Outcome, a \in Answer : Build(n, o, a)
    <3>1. last'.ok => last'.op = "build" /\ last'.tx = BodyMeant(b.fee) /\ last'.hash = last'.tx
      BY <2>3, BuildAnswers
    <3> QED
      BY <2>2, <3>1 DEF ResultCounted, Answered
  <2>4. CASE \E n \in 0..Len(Writes), o \in Outcome, a \in Answer, count \in {0, 3} :
               CalculateFee(count, n, o, a)
    <3>1. last'.ok => /\ last'.op = "fee" /\ last'.tx = BodyMeant(0)
                      /\ last'.given = 0 => last'.witnesses = CountedWitnesses
      BY <2>4, FeeAnswers
    <3> QED
      BY <2>2, <3>1 DEF ResultCounted, Answered
  <2>5. CASE \E output \in OutputsGiven, a \in Answer : CalculateMinUtxo(output, a)
    <3>1. last'.ok => last'.op = "min"
      BY <2>5 DEF CalculateMinUtxo, Call
    <3> QED
      BY <3>1 DEF ResultCounted, Answered
  <2>6. CASE \E signers \in SignersGiven, o \in Outcome : \E os \in [DOMAIN signers -> Outcome] :
               built # Nil /\ SignTx(built, signers, os, o)
    <3>1. SignersGiven \subseteq Seq(Key)
      BY TxBuilderAssumption
    <3>2. last'.ok => /\ last'.op = "sign"
                      /\ last'.signed = [tx |-> last'.tx,
                                         witnesses |-> [i \in DOMAIN last'.signers |->
                                                          [tx |-> last'.tx, key |-> last'.signers[i]]]]
      BY <2>6, <3>1, SignAnswers
    <3> QED
      BY <3>2 DEF ResultCounted, Answered
  <2> QED
    BY <1>2, <2>3, <2>4, <2>5, <2>6, SMTT(30) DEF Operations
<1>3. CASE UNCHANGED builderVars
  BY <1>3 DEF builderVars, ResultCounted, Answered, BodyMeant, Body, CountedWitnesses
<1> QED
  BY <1>1, <1>2, <1>3 DEF BuilderNext

\* Both invariants hold after any calls.
LEMMA ResultAlways == BuilderSpec => [](BuilderTypeOK /\ ResultCounted)
<1>1. BuilderInit => ResultCounted
  BY DEF BuilderInit, ResultCounted
<1>2. BuilderTypeOK /\ ResultCounted /\ [BuilderNext]_builderVars => ResultCounted'
  BY ResultStep
<1> QED
  BY BuilderTypeCorrect, <1>1, <1>2, PTL DEF BuilderSpec

\* The runs' invariant on results: a transaction, its hash, its price and its
\* signatures are made of the fields and arguments of the call that returns them,
\* whatever an earlier call has left in the directory.
THEOREM ResultCorrect == BuilderSpec => []ResultIsOfThisCall
<1>1. ResultCounted => ResultIsOfThisCall
  BY DEF ResultCounted, Answered, ResultIsOfThisCall
<1> QED
  BY ResultAlways, <1>1, PTL

\* The runs' invariant on the fee, for every tree of policy scripts: keys that
\* satisfy every script and sign for everything else are no more than the
\* witnesses that the fee is computed for.
THEOREM FeeCorrect == BuilderSpec => []FeePaysForWitnesses
<1>1. BuilderTypeOK /\ ResultCounted => FeePaysForWitnesses
  <2> SUFFICES ASSUME BuilderTypeOK, ResultCounted, last # NoCall, last.op = "fee", last.ok, last.given = 0,
                      ScriptsCanBeSatisfied
               PROVE  \E keys \in SUBSET Key :
                        /\ KeysToSign \subseteq keys
                        /\ \A ps \in ScriptsToSatisfy : keys \in Satisfying[ps]
                        /\ Cardinality(keys) <= last.witnesses
    BY DEF FeePaysForWitnesses, ScriptsCanBeSatisfied
  <2>1. last.witnesses = CountedWitnesses
    BY DEF ResultCounted, Answered
  <2> QED
    BY <2>1, EnoughWitnesses
<1> QED
  BY ResultAlways, <1>1, PTL
=============================================================================
