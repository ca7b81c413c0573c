----------------------- MODULE IndexerPipelineProofs -----------------------
(***************************************************************************)
(* Proofs about the indexer pipeline, for every block tree and             *)
(* configuration, in three parts: facts about the paths and the ledger of  *)
(* the block tree; the chain, which is the types, FollowsNode and the      *)
(* properties that rest on it, and the refinement of ConfirmedChain; and   *)
(* the data, which is what the database holds of the confirmed chain.      *)
(***************************************************************************)
EXTENDS IndexerPipeline, SequenceTheorems, FiniteSetTheorems, WellFoundedInduction, TLAPS

USE DEF Point

-----------------------------------------------------------------------------
(* The block tree: paths, induction along them, and slots *)

\* The path to a point is a sequence of blocks.
LEMMA PathType == ASSUME NEW p \in Point PROVE PathTo[p] \in Seq(Block)
  BY PathAssumption

\* A path ends in its point.
LEMMA PathLast ==
  ASSUME NEW b \in Block
  PROVE  /\ PathTo[b] # << >>
         /\ PathTo[b][Len(PathTo[b])] = b
         /\ Parent[b] \in Point
<1>1. Parent[b] \in Point
  BY BlockAssumption
<1>2. PathTo[Parent[b]] \in Seq(Block)
  BY <1>1, PathType
<1>3. PathTo[b] = Append(PathTo[Parent[b]], b)
  BY PathAssumption
<1> QED
  BY <1>1, <1>2, <1>3

\* A set of naturals that is not empty has a least element.
LEMMA LeastLength ==
  ASSUME NEW T \in SUBSET Nat, T # {}
  PROVE  \E x \in T : \A y \in T : x <= y
<1>1. PICK x \in T : \A y \in T : ~(<<y, x>> \in OpToRel(<, Nat))
  BY WFMin, NatLessThanWellFounded
<1>2. ASSUME NEW y \in T PROVE x <= y
  <2>1. ~(y < x)
    BY <1>1 DEF OpToRel
  <2> QED
    BY <2>1
<1> QED
  BY <1>2

\* Induction along the tree: what holds of Genesis, and of a block when of its
\* parent, holds of every point.
LEMMA ChainInduction ==
  ASSUME NEW S, Genesis \in S, \A b \in Block : Parent[b] \in S => b \in S
  PROVE  Point \subseteq S
<1> SUFFICES ASSUME NEW z \in Point, z \notin S PROVE FALSE
  OBVIOUS
<1> DEFINE T == {Len(PathTo[p]) : p \in Point \ S}
<1>1. \A p \in Point : Len(PathTo[p]) \in Nat
  BY PathType
<1>2. T \in SUBSET Nat /\ T # {}
  BY <1>1
<1>3. PICK n \in T : \A m \in T : n <= m
  BY <1>2, LeastLength
<1>4. PICK b \in Point \ S : n = Len(PathTo[b])
  BY <1>3
<1>5. b \in Block /\ Parent[b] \in Point /\ Parent[b] \notin S
  BY <1>4, PathLast
<1>6. Len(PathTo[b]) = Len(PathTo[Parent[b]]) + 1
  <2>1. PathTo[b] = Append(PathTo[Parent[b]], b) /\ PathTo[Parent[b]] \in Seq(Block)
    BY <1>5, PathAssumption, PathType
  <2> QED
    BY <2>1
<1>7. Len(PathTo[Parent[b]]) \in T
  BY <1>5
<1> QED
  BY <1>1, <1>3, <1>4, <1>5, <1>6, <1>7

\* A block comes after its ancestors on its path.
LEMMA PathOfChild ==
  ASSUME NEW b \in Block
  PROVE  LET up == PathTo[Parent[b]]
         IN  /\ Parent[b] \in Point /\ up \in Seq(Block) /\ PathTo[b] \in Seq(Block)
             /\ Len(up) \in Nat /\ Len(PathTo[b]) = Len(up) + 1
             /\ DOMAIN up = 1..Len(up) /\ DOMAIN PathTo[b] = 1..(Len(up) + 1)
             /\ PathTo[b][Len(up) + 1] = b
             /\ \A i \in 1..Len(up) : PathTo[b][i] = up[i]
<1>1. Parent[b] \in Point /\ PathTo[Parent[b]] \in Seq(Block) /\ PathTo[b] = Append(PathTo[Parent[b]], b)
  BY PathAssumption, PathType, PathLast
<1> QED
  BY <1>1

\* A block's path is its parent's and the block.
LEMMA OnChild ==
  ASSUME NEW b \in Block PROVE On(b) = On(Parent[b]) \cup {b}
<1> DEFINE up == PathTo[Parent[b]]
<1>1. ASSUME NEW q \in On(b) PROVE q \in On(Parent[b]) \cup {b}
  <2>1. PICK i \in 1..(Len(up) + 1) : q = PathTo[b][i]
    BY PathOfChild DEF On
  <2>2. CASE i = Len(up) + 1
    BY <2>1, <2>2, PathOfChild
  <2>3. CASE i # Len(up) + 1
    <3>1. i \in 1..Len(up)
      BY <2>3, PathOfChild
    <3> QED
      BY <2>1, <3>1, PathOfChild DEF On
  <2> QED
    BY <2>2, <2>3
<1>2. ASSUME NEW q \in On(Parent[b]) PROVE q \in On(b)
  <2>1. PICK i \in 1..Len(up) : q = up[i]
    BY PathOfChild DEF On
  <2>2. i \in 1..(Len(up) + 1) /\ PathTo[b][i] = up[i]
    BY PathOfChild
  <2> QED
    BY <2>1, <2>2, PathOfChild DEF On
<1>3. b \in On(b)
  <2>1. Len(up) + 1 \in 1..(Len(up) + 1)
    BY PathOfChild
  <2> QED
    BY <2>1, PathOfChild DEF On
<1> QED
  BY <1>1, <1>2, <1>3

\* No block is an ancestor of Genesis.
LEMMA OnGenesis == On(Genesis) = {}
  BY PathAssumption DEF On

\* Ancestors are blocks.
LEMMA OnType == ASSUME NEW p \in Point PROVE On(p) \subseteq Block
<1>1. PathTo[p] \in Seq(Block)
  BY PathType
<1> QED
  BY <1>1 DEF On

\* An ancestor's ancestors are ancestors.
LEMMA OnTransitive ==
  ASSUME NEW p \in Point, NEW q \in On(p) PROVE On(q) \subseteq On(p)
<1> DEFINE S == {x \in Point : \A y \in On(x) : On(y) \subseteq On(x)}
<1>1. Genesis \in S
  BY OnGenesis
<1>2. ASSUME NEW b \in Block, Parent[b] \in S PROVE b \in S
  BY <1>2, OnChild
<1>3. Point \subseteq S
  <2> HIDE DEF S
  <2> QED
    BY <1>1, <1>2, ChainInduction
<1> QED
  BY <1>3

\* Slots grow along a path.
LEMMA OnSlots ==
  ASSUME NEW p \in Point, NEW q \in On(p) PROVE Slot[q] \in Nat /\ Slot[q] <= Slot[p]
<1> DEFINE S == {x \in Point : \A y \in On(x) : Slot[y] <= Slot[x]}
<1>0. \A x \in Point : Slot[x] \in Nat
  BY BlockAssumption
<1>1. Genesis \in S
  BY OnGenesis
<1>2. ASSUME NEW b \in Block, Parent[b] \in S PROVE b \in S
  <2> SUFFICES ASSUME NEW y \in On(b) PROVE Slot[y] <= Slot[b]
    OBVIOUS
  <2>1. CASE y = b
    BY <1>0, <2>1
  <2>2. CASE y \in On(Parent[b])
    <3>1. Slot[y] <= Slot[Parent[b]] /\ Slot[Parent[b]] < Slot[b] /\ y \in Point /\ Parent[b] \in Point
      BY <1>2, <2>2, BlockAssumption, OnType, PathLast
    <3> QED
      BY <1>0, <3>1
  <2> QED
    BY <2>1, <2>2, OnChild
<1>3. Point \subseteq S
  <2> HIDE DEF S
  <2> QED
    BY <1>1, <1>2, ChainInduction
<1>4. q \in Point
  BY OnType
<1> QED
  BY <1>0, <1>3, <1>4

\* So a block is new on the path of its parent, and so is its slot.
LEMMA ChildIsNew ==
  ASSUME NEW b \in Block
  PROVE  b \notin On(Parent[b]) /\ \A q \in On(Parent[b]) : Slot[q] < Slot[b]
<1>1. Parent[b] \in Point /\ Slot[Parent[b]] < Slot[b] /\ Slot[b] \in Nat /\ Slot[Parent[b]] \in Nat
  BY BlockAssumption, PathLast
<1>2. ASSUME NEW q \in On(Parent[b]) PROVE Slot[q] < Slot[b]
  <2>1. Slot[q] \in Nat /\ Slot[q] <= Slot[Parent[b]]
    BY <1>1, OnSlots
  <2> QED
    BY <1>1, <2>1
<1> QED
  BY <1>1, <1>2

\* Different blocks of a path have different slots.
LEMMA OnSlotsDiffer ==
  ASSUME NEW p \in Point PROVE \A x, y \in On(p) : Slot[x] = Slot[y] => x = y
<1> DEFINE S == {z \in Point : \A x, y \in On(z) : Slot[x] = Slot[y] => x = y}
<1>1. Genesis \in S
  BY OnGenesis
<1>2. ASSUME NEW b \in Block, Parent[b] \in S PROVE b \in S
  <2> SUFFICES ASSUME NEW x \in On(b), NEW y \in On(b), Slot[x] = Slot[y] PROVE x = y
    OBVIOUS
  <2>1. x \in Point /\ y \in Point /\ Slot[x] \in Nat /\ Slot[y] \in Nat /\ Slot[b] \in Nat
    BY BlockAssumption, OnType
  <2>2. (x = b \/ (x \in On(Parent[b]) /\ Slot[x] < Slot[b])) /\ (y = b \/ (y \in On(Parent[b]) /\ Slot[y] < Slot[b]))
    BY OnChild, ChildIsNew
  <2> QED
    BY <1>2, <2>1, <2>2
<1>3. Point \subseteq S
  <2> HIDE DEF S
  <2> QED
    BY <1>1, <1>2, ChainInduction
<1> QED
  BY <1>3

\* Slots grow from position to position.
LEMMA PathOrder ==
  ASSUME NEW p \in Point
  PROVE  \A i, j \in DOMAIN PathTo[p] : i < j => Slot[PathTo[p][i]] < Slot[PathTo[p][j]]
<1> DEFINE S == {x \in Point : \A i, j \in DOMAIN PathTo[x] :
                   i < j => Slot[PathTo[x][i]] < Slot[PathTo[x][j]]}
<1>1. Genesis \in S
  BY PathAssumption
<1>2. ASSUME NEW b \in Block, Parent[b] \in S PROVE b \in S
  <2> DEFINE up == PathTo[Parent[b]]
  <2> SUFFICES ASSUME NEW i \in DOMAIN PathTo[b], NEW j \in DOMAIN PathTo[b], i < j
               PROVE  Slot[PathTo[b][i]] < Slot[PathTo[b][j]]
    OBVIOUS
  <2>1. i \in 1..Len(up) /\ i \in DOMAIN up /\ PathTo[b][i] = up[i] /\ (j \in 1..Len(up) \/ j = Len(up) + 1)
    BY PathOfChild
  <2>2. CASE j \in 1..Len(up)
    BY <1>2, <2>1, <2>2, PathOfChild
  <2>3. CASE j = Len(up) + 1
    <3>1. up[i] \in On(Parent[b]) /\ PathTo[b][j] = b
      BY <2>1, <2>3, PathOfChild DEF On
    <3> QED
      BY <2>1, <3>1, ChildIsNew
  <2> QED
    BY <2>1, <2>2, <2>3
<1>3. Point \subseteq S
  <2> HIDE DEF S
  <2> QED
    BY <1>1, <1>2, ChainInduction
<1> QED
  BY <1>3

\* The path to an ancestor is where a path begins.
LEMMA PathPrefix ==
  ASSUME NEW p \in Point, NEW q \in Ancestors(p)
  PROVE  /\ Len(PathTo[q]) <= Len(PathTo[p])
         /\ \A i \in 1..Len(PathTo[q]) : PathTo[q][i] = PathTo[p][i]
<1> DEFINE Begins(x, y) == /\ Len(PathTo[y]) <= Len(PathTo[x])
                           /\ \A i \in 1..Len(PathTo[y]) : PathTo[y][i] = PathTo[x][i]
           S == {x \in Point : \A y \in Ancestors(x) : Begins(x, y)}
<1>0. \A x \in Point : Len(PathTo[x]) \in Nat /\ Begins(x, x) /\ Begins(x, Genesis)
  BY PathType, PathAssumption
<1>1. Genesis \in S
  BY <1>0, OnGenesis DEF Ancestors
<1>2. ASSUME NEW b \in Block, Parent[b] \in S PROVE b \in S
  <2> SUFFICES ASSUME NEW y \in Ancestors(b) PROVE Begins(b, y)
    OBVIOUS
  <2>1. CASE y = b
    BY <1>0, <2>1
  <2>2. CASE y \in Ancestors(Parent[b])
    <3>1. Begins(Parent[b], y) /\ y \in Point
      BY <1>2, <2>2, OnType, PathLast DEF Ancestors
    <3>2. \A i \in 1..Len(PathTo[y]) : i \in 1..Len(PathTo[Parent[b]])
      BY <1>0, <3>1, PathOfChild
    <3> QED
      BY <1>0, <3>1, <3>2, PathOfChild
  <2> QED
    BY <2>1, <2>2, OnChild DEF Ancestors
<1>3. Point \subseteq S
  <2> HIDE DEF S
  <2> QED
    BY <1>1, <1>2, ChainInduction
<1> QED
  BY <1>3

\* The blocks of a path above an ancestor are those at the positions above it.
LEMMA OnAbove ==
  ASSUME NEW p \in Point, NEW q \in Ancestors(p)
  PROVE  On(p) \ On(q) = {PathTo[p][i] : i \in (Len(PathTo[q]) + 1)..Len(PathTo[p])}
<1> DEFINE path == PathTo[p]
           m == Len(PathTo[q])
           n == Len(path)
<1>1. q \in Point
  BY OnType DEF Ancestors
<1>2. /\ path \in Seq(Block) /\ PathTo[q] \in Seq(Block)
      /\ m \in Nat /\ n \in Nat /\ DOMAIN PathTo[q] = 1..m /\ DOMAIN path = 1..n
  BY <1>1, PathType
<1>3. m <= n /\ \A i \in 1..m : PathTo[q][i] = path[i]
  BY PathPrefix
<1>4. On(q) = {path[i] : i \in 1..m} /\ On(p) = {path[i] : i \in 1..n}
  BY <1>2, <1>3 DEF On
<1>5. \A i \in 1..n : Slot[path[i]] \in Nat
  BY <1>2, BlockAssumption
<1>6. \A i \in 1..m, j \in (m + 1)..n : path[i] # path[j]
  BY <1>2, <1>3, <1>5, PathOrder
<1> QED
  BY <1>2, <1>3, <1>4, <1>6

-----------------------------------------------------------------------------
(* The block tree: the ranks of the slots of a path *)

\* As many values as positions, when no value comes twice.
LEMMA DistinctValues ==
  ASSUME NEW a \in Nat, NEW n \in Nat, a <= n, NEW f,
         \A i, j \in (a + 1)..n : f[i] = f[j] => i = j
  PROVE  Cardinality({f[i] : i \in (a + 1)..n}) = n - a
<1> DEFINE T == {f[i] : i \in (a + 1)..n}
           g == [i \in (a + 1)..n |-> f[i]]
<1>1. g \in Bijection((a + 1)..n, T)
  BY DEF Bijection, Injection, Surjection, IsInjective
<1>2. IsFiniteSet((a + 1)..n) /\ Cardinality((a + 1)..n) = n - a
  <2>1. a + 1 \in Int /\ n \in Int /\ (IF a + 1 > n THEN 0 ELSE n - (a + 1) + 1) = n - a
    OBVIOUS
  <2> QED
    BY <2>1, FS_Interval
<1>3. ExistsBijection((a + 1)..n, T)
  BY <1>1 DEF ExistsBijection
<1> HIDE DEF T, g
<1>4. Cardinality(T) = Cardinality((a + 1)..n)
  BY <1>2, <1>3, FS_Bijection
<1> QED
  BY <1>2, <1>4 DEF T

\* Ranking the slots of a path from a position on gives the positions back.
LEMMA SlotsAbove ==
  ASSUME NEW p \in Point, NEW a \in Nat, NEW m \in Nat, m < a, a <= Len(PathTo[p])
  PROVE  LET slot == [i \in 1..Len(PathTo[p]) |-> Slot[PathTo[p][i]]]
             keys == {slot[i] : i \in (m + 1)..Len(PathTo[p])}
         IN  Cardinality({k \in keys : k > slot[a]}) = Len(PathTo[p]) - a
<1> DEFINE n == Len(PathTo[p])
           slot == [i \in 1..n |-> Slot[PathTo[p][i]]]
           keys == {slot[i] : i \in (m + 1)..n}
<1>1. n \in Nat /\ DOMAIN PathTo[p] = 1..n /\ PathTo[p] \in Seq(Block)
  BY PathType
<1>2. \A i \in 1..n : slot[i] \in Nat
  BY <1>1, BlockAssumption
<1>3. \A i, j \in 1..n : i < j => slot[i] < slot[j]
  BY <1>1, PathOrder
<1> HIDE DEF slot
<1>4. {k \in keys : k > slot[a]} = {slot[i] : i \in (a + 1)..n}
  <2>1. ASSUME NEW i \in (m + 1)..n, slot[i] > slot[a] PROVE i \in (a + 1)..n
    BY <1>1, <1>2, <1>3, <2>1
  <2>2. ASSUME NEW i \in (a + 1)..n PROVE slot[i] > slot[a] /\ i \in (m + 1)..n
    BY <1>1, <1>2, <1>3
  <2> QED
    BY <2>1, <2>2
<1>5. \A i, j \in (a + 1)..n : slot[i] = slot[j] => i = j
  BY <1>1, <1>2, <1>3
<1>6. Cardinality({slot[i] : i \in (a + 1)..n}) = n - a
  <2>1. a <= n
    OBVIOUS
  <2> HIDE DEF n
  <2> QED
    BY <1>1, <1>5, <2>1, DistinctValues
<1> QED
  BY <1>4, <1>6, Zenon DEF slot

-----------------------------------------------------------------------------
(* The block tree: what blocks create and spend *)

\* Joining blocks joins their transactions.
LEMMA TxsInUnion ==
  \A A, B : TxsInBlocks(A \cup B) = TxsInBlocks(A) \cup TxsInBlocks(B)
  BY DEF TxsInBlocks

\* A single block has the transactions of its list.
LEMMA TxsInOne == \A b : TxsInBlocks({b}) = TxsIn(b)
  BY DEF TxsInBlocks

\* Joining blocks joins what they create.
LEMMA CreatedUnion == \A A, B : Created(A \cup B) = Created(A) \cup Created(B)
  BY TxsInUnion DEF Created

\* Joining blocks joins what they spend.
LEMMA SpentUnion == \A A, B : Spent(A \cup B) = Spent(A) \cup Spent(B)
  BY TxsInUnion DEF Spent

\* What a single block creates.
LEMMA CreatedOne ==
  \A b : Created({b}) = UNION {{<<t, i>> : i \in DOMAIN Outs[t]} : t \in TxsIn(b)}
  BY TxsInOne DEF Created

\* What a single block spends.
LEMMA SpentOne == \A b : Spent({b}) = UNION {Ins[t] : t \in TxsIn(b)}
  BY TxsInOne DEF Spent

\* More blocks spend more.
LEMMA SpentSubset == \A A, B : A \subseteq B => Spent(A) \subseteq Spent(B)
  BY DEF Spent, TxsInBlocks

\* More blocks create more.
LEMMA CreatedSubset == \A A, B : A \subseteq B => Created(A) \subseteq Created(B)
  BY DEF Created, TxsInBlocks

\* The creator of an output.
LEMMA CreatedBy ==
  ASSUME NEW B, NEW ref \in Created(B)
  PROVE  ref[1] \in TxsInBlocks(B) /\ ref[2] \in DOMAIN Outs[ref[1]] /\ ref = <<ref[1], ref[2]>>
  BY DEF Created

\* The transactions of a block are transactions, each at its place.
LEMMA TxsInType ==
  ASSUME NEW b \in Block
  PROVE  /\ TxsIn(b) \subseteq Tx
         /\ \A t \in TxsIn(b) : \E i \in DOMAIN TxsOf[b] : t = TxsOf[b][i]
         /\ \A i \in DOMAIN TxsOf[b] : TxsOf[b][i] \in TxsIn(b) /\ i \in Nat
         /\ TxsOf[b] \in Seq(Tx)
<1>1. TxsOf[b] \in Seq(Tx)
  BY TxAssumption
<1> QED
  BY <1>1 DEF TxsIn

\* What the ledger's rules say of the i-th transaction of a block.
LEMMA LedgerOfTx ==
  ASSUME NEW b \in Block, NEW i \in DOMAIN TxsOf[b]
  PROVE  LET t == TxsOf[b][i]
             before == TxsInBlocks(On(Parent[b]))
         IN  /\ t \notin before
             /\ \A u \in before : Ins[u] \cap Ins[t] = {}
             /\ \A ref \in Ins[t] :
                  /\ ref[1] \in before \cup TxsIn(b) \cup (Tx \ TxsInBlocks(Block))
                  /\ ref[1] \in TxsIn(b) => \E j \in DOMAIN TxsOf[b] : j < i /\ ref[1] = TxsOf[b][j]
<1> DEFINE t == TxsOf[b][i]
           before == TxsInBlocks(On(Parent[b]))
           done == before \cup {TxsOf[b][j] : j \in 1..(i - 1)}
<1>0. i \in 1..Len(TxsOf[b]) /\ Len(TxsOf[b]) \in Nat /\ DOMAIN TxsOf[b] = 1..Len(TxsOf[b])
  BY TxsInType
<1>1. /\ t \notin done
      /\ \A u \in done : Ins[u] \cap Ins[t] = {}
      /\ \A ref \in Ins[t] : ref[1] \in done \cup (Tx \ TxsInBlocks(Block))
  BY LedgerAssumption
<1>2. \A j \in 1..(i - 1) : j \in DOMAIN TxsOf[b] /\ j < i
  BY <1>0
<1>3. ASSUME NEW ref \in Ins[t]
      PROVE  /\ ref[1] \in before \cup TxsIn(b) \cup (Tx \ TxsInBlocks(Block))
             /\ ref[1] \in TxsIn(b) => \E j \in DOMAIN TxsOf[b] : j < i /\ ref[1] = TxsOf[b][j]
  <2>1. TxsIn(b) \subseteq TxsInBlocks(Block)
    BY DEF TxsInBlocks
  <2>2. TxsIn(b) \cap before = {}
    <3> SUFFICES ASSUME NEW k \in DOMAIN TxsOf[b] PROVE TxsOf[b][k] \notin before
      BY DEF TxsIn
    <3> QED
      BY LedgerAssumption
  <2>3. CASE ref[1] \in before
    BY <2>2, <2>3
  <2>4. CASE ref[1] \in {TxsOf[b][j] : j \in 1..(i - 1)}
    <3>1. PICK j \in 1..(i - 1) : ref[1] = TxsOf[b][j]
      BY <2>4
    <3> QED
      BY <1>2, <3>1, TxsInType
  <2>5. CASE ref[1] \in Tx \ TxsInBlocks(Block)
    BY <2>1, <2>5
  <2> QED
    BY <1>1, <2>3, <2>4, <2>5
<1> QED
  BY <1>1, <1>3

\* A block and the path below it: no transaction and no spending twice, and no
\* output spent below the block that creates it.
LEMMA LedgerOfBlock ==
  ASSUME NEW b \in Block
  PROVE  LET below == On(Parent[b])
         IN  /\ TxsIn(b) \cap TxsInBlocks(below) = {}
             /\ Created({b}) \cap Created(below) = {}
             /\ Spent({b}) \cap Spent(below) = {}
             /\ Created({b}) \cap Spent(below) = {}
<1> DEFINE below == On(Parent[b])
<1>1. TxsIn(b) \cap TxsInBlocks(below) = {}
  BY TxsInType, LedgerOfTx
<1>2. Created({b}) \cap Created(below) = {}
  <2> SUFFICES ASSUME NEW ref \in Created({b}), ref \in Created(below) PROVE FALSE
    OBVIOUS
  <2> QED
    BY <1>1, CreatedBy, TxsInOne
<1>3. Spent({b}) \cap Spent(below) = {}
  <2> SUFFICES ASSUME NEW ref \in Spent({b}), ref \in Spent(below) PROVE FALSE
    OBVIOUS
  <2>1. PICK t \in TxsIn(b) : ref \in Ins[t]
    BY SpentOne
  <2>2. PICK u \in TxsInBlocks(below) : ref \in Ins[u]
    BY DEF Spent
  <2>3. PICK i \in DOMAIN TxsOf[b] : t = TxsOf[b][i]
    BY TxsInType
  <2> QED
    BY <2>1, <2>2, <2>3, LedgerOfTx
<1>4. Created({b}) \cap Spent(below) = {}
  <2> SUFFICES ASSUME NEW ref \in Created({b}), ref \in Spent(below) PROVE FALSE
    OBVIOUS
  <2>1. ref[1] \in TxsIn(b)
    BY CreatedBy, TxsInOne
  <2>2. PICK c \in below : \E t \in TxsIn(c) : ref \in Ins[t]
    BY DEF Spent, TxsInBlocks
  <2>3. c \in Block /\ Parent[b] \in Point /\ On(c) \subseteq below
    BY OnType, PathLast, OnTransitive
  <2>4. PICK i \in DOMAIN TxsOf[c] : ref \in Ins[TxsOf[c][i]]
    BY <2>2, <2>3, TxsInType
  <2>5. ref[1] \in TxsInBlocks(On(Parent[c])) \cup TxsIn(c) \cup (Tx \ TxsInBlocks(Block))
    BY <2>3, <2>4, LedgerOfTx
  <2>6. ref[1] \in TxsInBlocks(Block)
    BY <2>1 DEF TxsInBlocks
  <2>7. TxsInBlocks(On(Parent[c])) \cup TxsIn(c) = TxsInBlocks(On(c))
    <3>1. TxsInBlocks(On(Parent[c]) \cup {c}) = TxsInBlocks(On(Parent[c])) \cup TxsInBlocks({c})
      BY TxsInUnion, Zenon
    <3>2. On(c) = On(Parent[c]) \cup {c} /\ TxsInBlocks({c}) = TxsIn(c)
      BY <2>3, OnChild, TxsInOne
    <3> QED
      BY <3>1, <3>2, Zenon
  <2>8. ref[1] \in TxsInBlocks(below)
    BY <2>3, <2>5, <2>6, <2>7 DEF TxsInBlocks
  <2> QED
    BY <1>1, <2>1, <2>8
<1> QED
  BY <1>1, <1>2, <1>3, <1>4

-----------------------------------------------------------------------------
(* The block tree: blocks held unconfirmed on top of a point *)

\* The tip of a chain on a point is a point.
LEMMA TipType ==
  ASSUME NEW p \in Point, NEW s \in Seq(Block)
  PROVE  TipOf(p, s) \in Point
  BY DEF TipOf

\* Concatenation is associative on sequences of blocks.
LEMMA BlocksConcat ==
  \A r, s, t \in Seq(Block) : (r \o s) \o t = r \o (s \o t)
<1> SUFFICES ASSUME NEW r \in Seq(Block), NEW s \in Seq(Block), NEW t \in Seq(Block)
             PROVE  (r \o s) \o t = r \o (s \o t)
  OBVIOUS
<1> QED
  BY ConcatAssociative

\* s continues the path to p, as the unconfirmed blocks continue the path to
\* the latest confirmed one.
Held(p, s) ==
  /\ Linked(p, s)
  /\ \A i \in DOMAIN s : PathTo[s[i]] = PathTo[p] \o SubSeq(s, 1, i)

\* No block is held right after Reset.
LEMMA HeldEmpty == ASSUME NEW p PROVE Held(p, << >>)
  BY DEF Held, Linked

\* The path to the tip goes through p and then along s.
LEMMA HeldTip ==
  ASSUME NEW p \in Point, NEW s \in Seq(Block), Held(p, s)
  PROVE  PathTo[TipOf(p, s)] = PathTo[p] \o s
<1>0. PathTo[p] \in Seq(Block)
  BY PathType
<1>1. CASE s = << >>
  BY <1>0, <1>1 DEF TipOf
<1>2. CASE s # << >>
  <2>1. Len(s) \in DOMAIN s /\ SubSeq(s, 1, Len(s)) = s
    BY <1>2
  <2> QED
    BY <1>2, <2>1 DEF Held, TipOf
<1> QED
  BY <1>1, <1>2

\* RollForward puts a child of the tip behind the held blocks.
LEMMA HeldAppend ==
  ASSUME NEW p \in Point, NEW s \in Seq(Block), Held(p, s),
         NEW b \in Block, Parent[b] = TipOf(p, s)
  PROVE  Held(p, Append(s, b)) /\ TipOf(p, Append(s, b)) = b
<1> DEFINE t == Append(s, b)
<1>1. t \in Seq(Block) /\ Len(t) = Len(s) + 1 /\ t[Len(t)] = b
      /\ DOMAIN t = 1..(Len(s) + 1) /\ DOMAIN s = 1..Len(s)
      /\ \A i \in DOMAIN s : t[i] = s[i] /\ SubSeq(t, 1, i) = SubSeq(s, 1, i)
  OBVIOUS
<1>2. TipOf(p, t) = b
  BY <1>1 DEF TipOf
<1>3. Linked(p, t)
  <2> SUFFICES ASSUME NEW i \in DOMAIN t
               PROVE  Parent[t[i]] = IF i = 1 THEN p ELSE t[i - 1]
    BY DEF Linked
  <2>1. CASE i \in DOMAIN s
    BY <1>1, <2>1 DEF Held, Linked
  <2>2. CASE i = Len(s) + 1 /\ s = << >>
    BY <1>1, <2>2 DEF TipOf
  <2>3. CASE i = Len(s) + 1 /\ s # << >>
    <3>1. i # 1 /\ i - 1 = Len(s) /\ i - 1 \in DOMAIN s
      BY <1>1, <2>3
    <3>2. t[i - 1] = s[Len(s)] /\ t[i] = b
      BY <1>1, <2>3, <3>1
    <3> QED
      BY <2>3, <3>1, <3>2 DEF TipOf
  <2> QED
    BY <1>1, <2>1, <2>2, <2>3
<1>4. PathTo[b] = PathTo[p] \o t
  <2>1. PathTo[b] = Append(PathTo[p] \o s, b)
    BY PathAssumption, HeldTip
  <2>2. PathTo[p] \in Seq(Block)
    BY PathType
  <2>3. t = s \o <<b>>
    BY AppendIsConcat
  <2>4. PathTo[p] \o s \in Seq(Block)
    BY <2>2, ConcatProperties
  <2>5. Append(PathTo[p] \o s, b) = (PathTo[p] \o s) \o <<b>>
    BY <2>4, AppendIsConcat
  <2>6. <<b>> \in Seq(Block)
    OBVIOUS
  <2>7. (PathTo[p] \o s) \o <<b>> = PathTo[p] \o (s \o <<b>>)
    BY <2>2, <2>6, BlocksConcat, Zenon
  <2> QED
    BY <2>1, <2>3, <2>5, <2>7
<1>5. \A i \in DOMAIN t : PathTo[t[i]] = PathTo[p] \o SubSeq(t, 1, i)
  <2> SUFFICES ASSUME NEW i \in DOMAIN t
               PROVE  PathTo[t[i]] = PathTo[p] \o SubSeq(t, 1, i)
    OBVIOUS
  <2>1. CASE i \in DOMAIN s
    BY <1>1, <2>1 DEF Held
  <2>2. CASE i = Len(s) + 1
    <3>1. SubSeq(t, 1, i) = t /\ t[i] = b
      BY <1>1, <2>2
    <3> QED
      BY <1>4, <3>1
  <2>3. i \in DOMAIN s \/ i = Len(s) + 1
    BY <1>1
  <2> QED
    BY <2>1, <2>2, <2>3
<1> QED
  BY <1>2, <1>3, <1>5 DEF Held

\* RollBackward drops the held blocks above the n-th one.
LEMMA HeldTruncate ==
  ASSUME NEW p \in Point, NEW s \in Seq(Block), Held(p, s), NEW n \in DOMAIN s
  PROVE  Held(p, SubSeq(s, 1, n)) /\ TipOf(p, SubSeq(s, 1, n)) = s[n]
<1> DEFINE t == SubSeq(s, 1, n)
<1>1. n \in 1..Len(s) /\ t \in Seq(Block) /\ Len(t) = n /\ DOMAIN t = 1..n
      /\ \A i \in 1..n : t[i] = s[i] /\ SubSeq(t, 1, i) = SubSeq(s, 1, i)
  OBVIOUS
<1>2. TipOf(p, t) = s[n]
  BY <1>1 DEF TipOf
<1>3. \A i \in 1..n : Parent[t[i]] = IF i = 1 THEN p ELSE t[i - 1]
  BY <1>1, SMTT(30) DEF Held, Linked
<1>4. ASSUME NEW i \in 1..n PROVE PathTo[t[i]] = PathTo[p] \o SubSeq(t, 1, i)
  <2>1. i \in DOMAIN s
    BY <1>1
  <2>2. PathTo[s[i]] = PathTo[p] \o SubSeq(s, 1, i)
    BY <2>1 DEF Held
  <2> QED
    BY <1>1, <2>2
<1>5. Held(p, t)
  BY <1>1, <1>3, <1>4 DEF Held, Linked
<1> QED
  BY <1>2, <1>5

\* Confirming the oldest held block.
LEMMA HeldConfirm ==
  ASSUME NEW p \in Point, NEW s \in Seq(Block), Held(p, s), s # << >>
  PROVE  /\ Parent[s[1]] = p
         /\ PathTo[s[1]] = Append(PathTo[p], s[1])
         /\ Held(s[1], Tail(s))
         /\ TipOf(s[1], Tail(s)) = TipOf(p, s)
<1> DEFINE t == Tail(s)
<1>1. s[1] \in Block /\ t \in Seq(Block) /\ Len(t) = Len(s) - 1 /\ DOMAIN t = 1..(Len(s) - 1)
      /\ DOMAIN s = 1..Len(s) /\ \A i \in DOMAIN t : t[i] = s[i + 1]
  OBVIOUS
<1>2. Parent[s[1]] = p
  BY <1>1 DEF Held, Linked
<1>3. PathTo[s[1]] = Append(PathTo[p], s[1])
  BY <1>1, <1>2, PathAssumption
<1>4. TipOf(s[1], t) = TipOf(p, s)
  BY <1>1 DEF TipOf
<1>5. Linked(s[1], t)
  <2> SUFFICES ASSUME NEW i \in DOMAIN t
               PROVE  Parent[t[i]] = IF i = 1 THEN s[1] ELSE t[i - 1]
    BY DEF Linked
  <2>1. i \in 1..(Len(s) - 1) /\ i + 1 \in DOMAIN s /\ i + 1 # 1 /\ (i + 1) - 1 = i
    BY <1>1
  <2>2. Parent[t[i]] = s[i]
    BY <1>1, <2>1 DEF Held, Linked
  <2>3. CASE i = 1
    BY <2>2, <2>3
  <2>4. CASE i # 1
    <3>1. i - 1 \in DOMAIN t /\ t[i - 1] = s[i]
      BY <1>1, <2>1, <2>4
    <3> QED
      BY <2>2, <2>4, <3>1
  <2> QED
    BY <2>3, <2>4
<1>6. ASSUME NEW i \in DOMAIN t PROVE PathTo[t[i]] = PathTo[s[1]] \o SubSeq(t, 1, i)
  <2>a. i + 1 \in DOMAIN s /\ t[i] = s[i + 1]
    BY <1>1
  <2>b. PathTo[s[i + 1]] = PathTo[p] \o SubSeq(s, 1, i + 1)
    <3>1. \A k \in DOMAIN s : PathTo[s[k]] = PathTo[p] \o SubSeq(s, 1, k)
      BY DEF Held
    <3> QED
      BY <3>1, <2>a
  <2>1. PathTo[t[i]] = PathTo[p] \o SubSeq(s, 1, i + 1)
    BY <2>a, <2>b
  <2>2. SubSeq(s, 1, i + 1) = <<s[1]>> \o SubSeq(t, 1, i)
    BY <1>1
  <2>3. PathTo[p] \in Seq(Block)
    BY PathType
  <2>4. <<s[1]>> \in Seq(Block) /\ SubSeq(t, 1, i) \in Seq(Block)
    BY <1>1
  <2>5. PathTo[s[1]] = PathTo[p] \o <<s[1]>>
    BY <1>1, <1>3, <2>3, AppendIsConcat
  <2>6. (PathTo[p] \o <<s[1]>>) \o SubSeq(t, 1, i) = PathTo[p] \o (<<s[1]>> \o SubSeq(t, 1, i))
    BY <2>3, <2>4, BlocksConcat, Zenon
  <2> QED
    BY <2>1, <2>2, <2>5, <2>6
<1> QED
  BY <1>2, <1>3, <1>4, <1>5, <1>6 DEF Held

\* An ancestor of the tip that is not held is an ancestor of p.
LEMMA HeldAncestor ==
  ASSUME NEW p \in Point, NEW s \in Seq(Block), Held(p, s),
         NEW q \in Ancestors(TipOf(p, s)), \A i \in DOMAIN s : s[i] # q
  PROVE  q \in Ancestors(p)
<1>1. PathTo[TipOf(p, s)] = PathTo[p] \o s
  BY HeldTip
<1>2. PathTo[p] \in Seq(Block)
  BY PathType
<1>3. CASE q \in On(TipOf(p, s))
  <2>1. PICK i \in DOMAIN (PathTo[p] \o s) : q = (PathTo[p] \o s)[i]
    BY <1>1, <1>3 DEF On
  <2>2. i \in 1..(Len(PathTo[p]) + Len(s))
    BY <1>2, <2>1
  <2>3. CASE i <= Len(PathTo[p])
    BY <1>2, <2>1, <2>2, <2>3 DEF On, Ancestors
  <2>4. CASE i > Len(PathTo[p])
    <3>1. i - Len(PathTo[p]) \in DOMAIN s /\ q = s[i - Len(PathTo[p])]
      BY <1>2, <2>1, <2>2, <2>4
    <3> QED
      BY <3>1
  <2> QED
    BY <1>2, <2>2, <2>3, <2>4
<1> QED
  BY <1>3 DEF Ancestors

-----------------------------------------------------------------------------
(* The chain: types *)

\* What the assumption on the configuration gives the other proofs.
LEMMA Config ==
  /\ ConfirmationBlockCount \in Nat /\ ConfirmationBlockCount > 0
  /\ AddressesOfInterest \subseteq Address
  /\ StartPoint \in Point
  BY ConfigAssumption DEF StartPoint

\* The pipeline starts well-typed: NewBlockIndexer on an empty or a filled database.
LEMMA TypeInit == Init => TypeOK
<1> SUFFICES ASSUME Init PROVE TypeOK
  OBVIOUS
<1> USE DEF Init, InitDB, NewBlockIndexer
<1>1. Len(unconfirmedBlocks) <= ConfirmationBlockCount /\ unconfirmedBlocks \in Seq(Block)
  BY Config
<1>2. addressesOfInterest \subseteq Address
  BY Config
<1>3. queue \in Seq(Item)
  OBVIOUS
<1> QED
  BY <1>1, <1>2, <1>3 DEF TypeOK

\* GetLatestBlockPoint returns a point, the saved one or that of the configuration.
LEMMA LatestPointType == TypeOK => GetLatestPoint \in Point
  BY Config DEF TypeOK, GetLatestPoint

\* Every handler keeps the types of the buckets, the queue and the held blocks.
LEMMA TypeStep == TypeOK /\ [Next]_vars => TypeOK'
<1> SUFFICES ASSUME TypeOK, [Next]_vars PROVE TypeOK'
  OBVIOUS
<1> USE DEF TypeOK, dbVars, memoryVars, netVars, appVars
<1>1. CASE Connect
  BY <1>1, LatestPointType, Config DEF Connect, Reset, Item, Backward
<1>2. CASE IntersectNotFound
  BY <1>2, LatestPointType, Config DEF IntersectNotFound, Reset
<1>3. CASE ResetFails
  BY <1>3 DEF ResetFails
<1>4. CASE Disconnect
  BY <1>4 DEF Disconnect
<1>5. ASSUME NEW b \in Block, NodeRollForward(b) PROVE TypeOK'
  BY <1>5 DEF NodeRollForward, Enqueue, Forward, Item
<1>6. ASSUME NEW p \in Point, NodeRollBackward(p) PROVE TypeOK'
  BY <1>6 DEF NodeRollBackward, Enqueue, Backward, Item
<1>7. CASE ExecuteBackward
  <2>1. unconfirmedBlocks' \in Seq(Block) /\ Len(unconfirmedBlocks') <= ConfirmationBlockCount
    <3>1. CASE RollBackwardToUnconfirmed(Head(queue).point)
      <4>1. PICK i \in DOMAIN unconfirmedBlocks : unconfirmedBlocks' = SubSeq(unconfirmedBlocks, 1, i)
        BY <3>1 DEF RollBackwardToUnconfirmed
      <4>2. i \in 1..Len(unconfirmedBlocks)
        OBVIOUS
      <4> QED
        BY <4>1, <4>2, Config, SMTT(30)
    <3>2. CASE RollBackwardToConfirmed(Head(queue).point)
      BY <3>2, Config DEF RollBackwardToConfirmed
    <3> QED
      BY <1>7, <3>1, <3>2 DEF ExecuteBackward
  <2>2. handling = NoBlock /\ UNCHANGED <<dbVars, latestBlockPoint, addressesOfInterest, handling>>
    BY <1>7 DEF ExecuteBackward, RollBackwardToConfirmed, RollBackwardToUnconfirmed
  <2>3. queue' \in Seq(Item) /\ UNCHANGED <<connected, pointer, loop, readTxs, delivered>>
    BY <1>7 DEF ExecuteBackward, NextItem, ItemDone
  <2> QED
    BY <2>1, <2>2, <2>3
<1>8. CASE ExecuteFatal
  BY <1>8 DEF ExecuteFatal, NextItem, RollBackwardFatal
<1>9. CASE ExecuteForward
  BY <1>9, Config DEF ExecuteForward, NextItem, RollForwardNotFull, ItemDone, Item, IsFull
<1>10. CASE ExecuteConfirm
  BY <1>10, Config DEF ExecuteConfirm, NextItem, RollForwardConfirm, IsFull, ProcessConfirmedBlock, SetLatestBlockPoint, Item
<1>11. CASE ExecuteFails
  BY <1>11 DEF ExecuteFails, RollForwardFails
<1>12. CASE HandlerReads
  BY <1>12 DEF HandlerReads
<1>13. CASE HandlerMarks
  BY <1>13 DEF HandlerMarks, HandlerReturns, ItemDone, MarkConfirmedTxsProcessed
<1>14. CASE HandlerFails
  BY <1>14 DEF HandlerFails, HandlerReturns, ItemDone
<1>15. CASE AddAddresses
  BY <1>15, PipelineAssumption DEF AddAddresses, AddNewAddressesOfInterest
<1>16. CASE Crash
  <2>1. Len(unconfirmedBlocks') <= ConfirmationBlockCount /\ unconfirmedBlocks' \in Seq(Block)
    BY <1>16, Config DEF Crash
  <2>2. addressesOfInterest' \subseteq Address
    BY <1>16, Config DEF Crash
  <2>3. /\ latestBlockPoint' = NoPoint /\ handling' = NoBlock /\ readTxs' = NotRead
        /\ connected' = FALSE /\ queue' = << >> /\ loop' = "stopped"
        /\ UNCHANGED <<savedBlockPoint, pointer>>
    BY <1>16 DEF Crash
  <2>4. queue' \in Seq(Item)
    BY <2>3
  <2>5. connected' \in BOOLEAN
    BY <2>3
  <2>6. savedBlockPoint' \in Block \cup {NoPoint} /\ pointer' \in Point
    BY <2>3
  <2>7. latestBlockPoint' \in Point \cup {NoPoint} /\ handling' \in Block \cup {NoBlock}
    BY <2>3
  <2>8. (handling' # NoBlock => loop' = "running" /\ queue' # << >>) /\ (readTxs' # NotRead => handling' # NoBlock)
    BY <2>3
  <2>9. (connected' => loop' \in {"running", "fatal"})  /\ loop' \in {"stopped", "running", "fatal", "broken"}
    BY <2>3
  <2> QED
    BY <2>1, <2>2, <2>4, <2>5, <2>6, <2>7, <2>8, <2>9
<1>17. CASE UNCHANGED vars
  BY <1>17 DEF vars
<1> QED
  BY <1>1, <1>2, <1>3, <1>4, <1>5, <1>6, <1>7, <1>8, <1>9, <1>10, <1>11, <1>12,
     <1>13, <1>14, <1>15, <1>16, <1>17 DEF Next, NodeNext, LoopNext

-----------------------------------------------------------------------------
(* The chain: facts about the queue *)

\* The items of q lead from tip to the read pointer ptr.
Follows(tip, q, ptr) ==
  /\ \A i \in DOMAIN q : Leads(IF i = 1 THEN tip ELSE q[i - 1].point, q[i])
  /\ ptr = IF q = << >> THEN tip ELSE q[Len(q)].point

\* The fields of an item.
LEMMA ItemType ==
  /\ \A item \in Item : item.point \in Point /\ item.kind \in {"forward", "backward"}
  /\ \A item \in Item : item.kind = "forward" => item.point \in Block
  /\ \A b \in Block : Forward(b) \in Item /\ Forward(b).point = b /\ Forward(b).kind = "forward"
  /\ \A p \in Point : Backward(p) \in Item /\ Backward(p).point = p /\ Backward(p).kind = "backward"
  BY DEF Item, Forward, Backward

\* A queue without items leads nowhere.
LEMMA FollowsEmpty == \A tip : Follows(tip, << >>, tip)
  BY DEF Follows

\* A point is its own ancestor, so a queue may start with the intersection.
LEMMA FollowsIntersection ==
  ASSUME NEW p \in Point PROVE Follows(p, <<Backward(p)>>, p)
<1>1. p \in Ancestors(p)
  <2>1. CASE p \in Block
    <3>1. PathTo[p] \in Seq(Block) /\ PathTo[p] # << >>
      BY PathType, PathLast, <2>1
    <3>2. Len(PathTo[p]) \in DOMAIN PathTo[p]
      BY <3>1
    <3> QED
      BY <2>1, <3>2, PathLast DEF Ancestors, On
  <2> QED
    BY <2>1 DEF Ancestors
<1> DEFINE q == <<Backward(p)>>
<1>2. DOMAIN q = {1} /\ Len(q) = 1 /\ q # << >> /\ q[1] = Backward(p)
  OBVIOUS
<1>3. Leads(p, q[1]) /\ q[1].point = p
  BY <1>1, <1>2, ItemType DEF Leads
<1> QED
  BY <1>2, <1>3 DEF Follows

\* Enqueue keeps the queue a path to the read pointer.
LEMMA FollowsPush ==
  ASSUME NEW tip \in Point, NEW q \in Seq(Item), NEW ptr, Follows(tip, q, ptr),
         NEW item \in Item, Leads(ptr, item)
  PROVE  Follows(tip, Append(q, item), item.point)
<1> DEFINE r == Append(q, item)
<1>1. DOMAIN q = 1..Len(q) /\ DOMAIN r = 1..(Len(q) + 1) /\ Len(r) = Len(q) + 1 /\ Len(q) \in Nat
      /\ r # << >> /\ r[Len(r)] = item /\ \A i \in DOMAIN q : r[i] = q[i]
  OBVIOUS
<1>2. ASSUME NEW i \in DOMAIN r
      PROVE  Leads(IF i = 1 THEN tip ELSE r[i - 1].point, r[i])
  <2>1. CASE i \in DOMAIN q
    <3>1. CASE i = 1
      BY <1>1, <2>1, <3>1 DEF Follows
    <3>2. CASE i # 1
      <4>1. i - 1 \in DOMAIN q
        BY <1>1, <2>1, <3>2
      <4> QED
        BY <1>1, <2>1, <3>2, <4>1 DEF Follows
    <3> QED
      BY <3>1, <3>2
  <2>2. CASE i = Len(q) + 1
    <3>1. CASE q = << >>
      BY <1>1, <2>2, <3>1 DEF Follows
    <3>2. CASE q # << >>
      <4>1. i # 1 /\ i - 1 = Len(q) /\ i - 1 \in DOMAIN q
        BY <1>1, <2>2, <3>2
      <4>2. r[i] = item /\ r[i - 1].point = ptr
        BY <1>1, <2>2, <3>2, <4>1 DEF Follows
      <4> QED
        BY <4>1, <4>2
    <3> QED
      BY <3>1, <3>2
  <2>3. i \in DOMAIN q \/ i = Len(q) + 1
    BY <1>1
  <2> QED
    BY <2>1, <2>2, <2>3
<1> QED
  BY <1>1, <1>2 DEF Follows

\* Taking the oldest item off moves the tip to the point of that item.
LEMMA FollowsPop ==
  ASSUME NEW tip \in Point, NEW q \in Seq(Item), NEW ptr, Follows(tip, q, ptr), q # << >>
  PROVE  /\ Leads(tip, Head(q))
         /\ Follows(Head(q).point, Tail(q), ptr)
<1> DEFINE r == Tail(q)
<1>1. DOMAIN q = 1..Len(q) /\ DOMAIN r = 1..(Len(q) - 1) /\ Len(r) = Len(q) - 1 /\ Len(q) \in Nat \ {0}
      /\ Head(q) = q[1] /\ 1 \in DOMAIN q /\ \A i \in DOMAIN r : r[i] = q[i + 1]
  OBVIOUS
<1>2. Leads(tip, Head(q))
  BY <1>1 DEF Follows
<1>3. ASSUME NEW i \in DOMAIN r
      PROVE  Leads(IF i = 1 THEN Head(q).point ELSE r[i - 1].point, r[i])
  <2>1. i \in 1..(Len(q) - 1) /\ i + 1 \in DOMAIN q /\ i + 1 # 1 /\ (i + 1) - 1 = i
    BY <1>1
  <2>2. Leads(q[i].point, r[i])
    BY <1>1, <2>1 DEF Follows
  <2>3. CASE i = 1
    BY <1>1, <2>2, <2>3
  <2>4. CASE i # 1
    <3>1. i - 1 \in DOMAIN r /\ r[i - 1] = q[i]
      BY <1>1, <2>1, <2>4
    <3> QED
      BY <2>2, <2>4, <3>1
  <2> QED
    BY <2>3, <2>4
<1>4. ptr = IF r = << >> THEN Head(q).point ELSE r[Len(r)].point
  <2>1. CASE Len(q) = 1
    BY <1>1, <2>1 DEF Follows
  <2>2. CASE Len(q) # 1
    <3>1. r # << >> /\ Len(r) \in DOMAIN r /\ r[Len(r)] = q[Len(q)]
      BY <1>1, <2>2
    <3> QED
      BY <3>1 DEF Follows
  <2> QED
    BY <2>1, <2>2
<1> QED
  BY <1>2, <1>3, <1>4 DEF Follows

-----------------------------------------------------------------------------
(* The chain: the inductive invariant *)

\* FollowsNode says where the queue and the unconfirmed blocks lead; with it
\* goes what is known of the rollback at which the loop gave up.
Inv == TypeOK /\ FollowsNode /\ FatalMeansOrphaned /\ (loop = "fatal" => queue # << >>)

\* The part of FollowsNode that every step has to re-establish.
LEMMA FollowsNodeDef ==
  FollowsNode <=>
    (Started =>
       /\ latestBlockPoint = GetLatestPoint
       /\ Held(latestBlockPoint, unconfirmedBlocks)
       /\ Follows(ViewTip, Pending, pointer))
  BY DEF FollowsNode, Held, Follows

\* Types of the derived values.
LEMMA DerivedTypes ==
  ASSUME TypeOK, Started, FollowsNode
  PROVE  latestBlockPoint \in Point /\ ViewTip \in Point /\ Pending \in Seq(Item)
<1>1. latestBlockPoint \in Point
  BY FollowsNodeDef, LatestPointType
<1>2. unconfirmedBlocks \in Seq(Block)
  BY DEF TypeOK
<1>3. ViewTip \in Point
  BY <1>1, <1>2, TipType DEF ViewTip
<1>4. Pending \in Seq(Item)
  BY DEF Pending, TypeOK
<1> QED
  BY <1>1, <1>3, <1>4

\* The inductive invariant holds when the application starts.
LEMMA InvInit == Init => Inv
<1> SUFFICES ASSUME Init PROVE Inv
  OBVIOUS
<1>1. loop = "stopped"
  BY DEF Init
<1> QED
  BY <1>1, TypeInit DEF Inv, FollowsNode, FatalMeansOrphaned, Started

\* A step that changes nothing FollowsNode speaks of keeps it.
LEMMA FollowsNodeFrame ==
  ASSUME Inv,
         UNCHANGED <<savedBlockPoint, latestBlockPoint, unconfirmedBlocks, pointer, loop>>,
         Pending' = Pending
  PROVE  FollowsNode'
<1>1. GetLatestPoint' = GetLatestPoint /\ ViewTip' = ViewTip /\ Started' = Started
  BY DEF GetLatestPoint, ViewTip, Started
<1> QED
  BY <1>1 DEF Inv, FollowsNode

\* After a restart of the loop at the latest point nothing is held.
LEMMA FollowsNodeReset ==
  ASSUME TypeOK, Reset, loop' = "running", pointer' = GetLatestPoint,
         queue' = << >> \/ queue' = <<Backward(GetLatestPoint)>>
  PROVE  FollowsNode'
<1>1. GetLatestPoint \in Point
  BY LatestPointType
<1>2. /\ latestBlockPoint' = GetLatestPoint' /\ latestBlockPoint' = GetLatestPoint
      /\ unconfirmedBlocks' = << >> /\ handling' = NoBlock
  BY DEF Reset, GetLatestPoint, dbVars
<1>3. ViewTip' = GetLatestPoint /\ Pending' = queue'
  BY <1>2 DEF ViewTip, TipOf, Pending
<1>4. Follows(GetLatestPoint, queue', GetLatestPoint)
  BY <1>1, FollowsEmpty, FollowsIntersection
<1> QED
  BY <1>2, <1>3, <1>4, HeldEmpty DEF FollowsNode, Held, Follows

\* A new item goes one step on from the read pointer.
LEMMA FollowsNodeEnqueue ==
  ASSUME Inv, NEW item \in Item, Enqueue(item), Leads(pointer, item)
  PROVE  FollowsNode'
<1>1. Started
  BY DEF Inv, TypeOK, Enqueue, Started
<1>2. /\ ViewTip \in Point /\ Pending \in Seq(Item)
      /\ latestBlockPoint = GetLatestPoint
      /\ Held(latestBlockPoint, unconfirmedBlocks)
      /\ Follows(ViewTip, Pending, pointer)
  BY <1>1, DerivedTypes, FollowsNodeDef DEF Inv
<1>3. GetLatestPoint' = GetLatestPoint /\ ViewTip' = ViewTip
      /\ UNCHANGED <<latestBlockPoint, unconfirmedBlocks>> /\ pointer' = item.point
  BY DEF Enqueue, dbVars, memoryVars, GetLatestPoint, ViewTip
<1>4. Pending' = Append(Pending, item)
  <2>1. queue' = Append(queue, item) /\ handling' = handling /\ queue \in Seq(Item)
    BY DEF Enqueue, memoryVars, Inv, TypeOK
  <2>2. CASE handling = NoBlock
    BY <2>1, <2>2 DEF Pending
  <2>3. CASE handling # NoBlock
    <3>1. queue # << >>
      BY <2>3 DEF Inv, TypeOK
    <3>2. Tail(Append(queue, item)) = Append(Tail(queue), item)
      BY <2>1, <3>1
    <3> QED
      BY <2>1, <2>3, <3>2 DEF Pending
  <2> QED
    BY <2>2, <2>3
<1>5. Follows(ViewTip, Append(Pending, item), item.point)
  BY <1>2, FollowsPush
<1> QED
  BY <1>2, <1>3, <1>4, <1>5 DEF FollowsNode, Held, Follows

\* A rollback that the indexer can follow.
LEMMA FollowsNodeBackward ==
  ASSUME Inv, ExecuteBackward
  PROVE  FollowsNode'
<1> DEFINE p == Head(queue).point
<1>1. Started /\ handling = NoBlock /\ queue # << >> /\ Pending = queue /\ queue \in Seq(Item)
      /\ queue' = Tail(queue) /\ handling' = NoBlock /\ Pending' = Tail(queue)
      /\ UNCHANGED <<savedBlockPoint, latestBlockPoint, pointer, loop>>
  BY DEF ExecuteBackward, NextItem, ItemDone, RollBackwardToConfirmed,
         RollBackwardToUnconfirmed, Started, Pending, Inv, TypeOK, dbVars
<1>2. /\ ViewTip \in Point /\ latestBlockPoint \in Point /\ unconfirmedBlocks \in Seq(Block)
      /\ latestBlockPoint = GetLatestPoint
      /\ Held(latestBlockPoint, unconfirmedBlocks)
      /\ Follows(ViewTip, queue, pointer)
  BY <1>1, DerivedTypes, FollowsNodeDef DEF Inv, TypeOK
<1>3. Follows(p, Tail(queue), pointer)
  BY <1>1, <1>2, FollowsPop
<1>4. Held(latestBlockPoint, unconfirmedBlocks') /\ ViewTip' = p
  <2>1. CASE RollBackwardToUnconfirmed(p)
    <3>1. PICK i \in DOMAIN unconfirmedBlocks :
            unconfirmedBlocks[i] = p /\ unconfirmedBlocks' = SubSeq(unconfirmedBlocks, 1, i)
      BY <2>1 DEF RollBackwardToUnconfirmed
    <3> QED
      BY <1>1, <1>2, <3>1, HeldTruncate DEF ViewTip
  <2>2. CASE RollBackwardToConfirmed(p)
    BY <1>1, <2>2, HeldEmpty DEF RollBackwardToConfirmed, ViewTip, TipOf
  <2> QED
    BY <2>1, <2>2 DEF ExecuteBackward
<1>5. GetLatestPoint' = GetLatestPoint
  BY <1>1 DEF GetLatestPoint
<1> QED
  BY <1>1, <1>2, <1>3, <1>4, <1>5 DEF FollowsNode, Held, Follows

\* What is known when the loop takes a forward item: its block fits the view.
LEMMA ForwardFits ==
  ASSUME Inv, NextItem("forward"), handling = NoBlock
  PROVE  /\ Started /\ queue \in Seq(Item) /\ queue # << >> /\ Pending = queue
         /\ Head(queue).point \in Block
         /\ latestBlockPoint \in Point /\ unconfirmedBlocks \in Seq(Block)
         /\ latestBlockPoint = GetLatestPoint
         /\ Held(latestBlockPoint, unconfirmedBlocks)
         /\ Parent[Head(queue).point] = ViewTip
         /\ Follows(Head(queue).point, Tail(queue), pointer)
<1>1. Started /\ queue \in Seq(Item) /\ queue # << >> /\ Pending = queue
  BY DEF NextItem, Started, Pending, Inv, TypeOK
<1>2. /\ ViewTip \in Point /\ latestBlockPoint \in Point /\ unconfirmedBlocks \in Seq(Block)
      /\ latestBlockPoint = GetLatestPoint
      /\ Held(latestBlockPoint, unconfirmedBlocks)
      /\ Follows(ViewTip, queue, pointer)
  BY <1>1, DerivedTypes, FollowsNodeDef DEF Inv, TypeOK
<1>3. Leads(ViewTip, Head(queue)) /\ Follows(Head(queue).point, Tail(queue), pointer)
  BY <1>1, <1>2, FollowsPop
<1>4. Head(queue).kind = "forward" /\ Head(queue) \in Item
  BY <1>1 DEF NextItem
<1>5. Head(queue).point \in Block
  BY <1>4, ItemType
<1> QED
  BY <1>1, <1>2, <1>3, <1>4, <1>5 DEF Leads

\* Executing a header makes it a held block; the chain of moves is the same one.
LEMMA FollowsNodeForward ==
  ASSUME Inv, ExecuteForward
  PROVE  FollowsNode'
<1> DEFINE b == Head(queue).point
<1>1. NextItem("forward") /\ handling = NoBlock /\ handling' = NoBlock
      /\ queue' = Tail(queue) /\ Pending' = Tail(queue)
      /\ unconfirmedBlocks' = Append(unconfirmedBlocks, b)
      /\ UNCHANGED <<savedBlockPoint, latestBlockPoint, pointer, loop>>
  BY DEF ExecuteForward, ItemDone, RollForwardNotFull, Pending, dbVars
<1>2. Held(latestBlockPoint, unconfirmedBlocks') /\ ViewTip' = b
  BY <1>1, ForwardFits, HeldAppend DEF ViewTip
<1>3. GetLatestPoint' = GetLatestPoint
  BY <1>1 DEF GetLatestPoint
<1> QED
  BY <1>1, <1>2, <1>3, ForwardFits DEF FollowsNode, Held, Follows

\* The effect of confirming the oldest held block.
LEMMA ConfirmStep ==
  ASSUME Inv, ExecuteConfirm
  PROVE  LET first == unconfirmedBlocks[1]
             b == Head(queue).point
         IN  /\ Started /\ Started' /\ first \in Block /\ b \in Block
             /\ Len(unconfirmedBlocks) = ConfirmationBlockCount
             /\ latestBlockPoint = GetLatestPoint /\ latestBlockPoint \in Point
             /\ latestBlockPoint' = first /\ GetLatestPoint' = first
             /\ savedBlockPoint' = first
             /\ unconfirmedBlocks' = Append(Tail(unconfirmedBlocks), b)
             /\ Parent[first] = latestBlockPoint
             /\ PathTo[first] = Append(PathTo[latestBlockPoint], first)
             /\ Parent[b] = ViewTip
             /\ Held(first, unconfirmedBlocks')
             /\ ViewTip' = b
             /\ Follows(b, Tail(queue), pointer)
             /\ Pending' = Tail(queue) /\ UNCHANGED <<queue, pointer, loop>>
<1> DEFINE first == unconfirmedBlocks[1]
           b == Head(queue).point
<1>1. NextItem("forward") /\ handling = NoBlock /\ UNCHANGED <<queue, pointer, loop>>
      /\ Len(unconfirmedBlocks) = ConfirmationBlockCount
  BY DEF ExecuteConfirm, RollForwardConfirm, netVars, IsFull
<1>2. unconfirmedBlocks # << >> /\ Head(unconfirmedBlocks) = first /\ first \in Block
  BY <1>1, ForwardFits, Config
<1>3. latestBlockPoint' = first /\ savedBlockPoint' = first /\ handling' = first
      /\ unconfirmedBlocks' = Append(Tail(unconfirmedBlocks), b)
  BY <1>2 DEF ExecuteConfirm, RollForwardConfirm, ProcessConfirmedBlock, SetLatestBlockPoint
<1>4. GetLatestPoint' = first
  BY <1>2, <1>3, NoneAssumption DEF GetLatestPoint
<1>5. Pending' = Tail(queue)
  BY <1>1, <1>2, <1>3, ConfigAssumption DEF Pending
<1>6. /\ Parent[first] = latestBlockPoint
      /\ PathTo[first] = Append(PathTo[latestBlockPoint], first)
      /\ Held(first, Tail(unconfirmedBlocks))
      /\ TipOf(first, Tail(unconfirmedBlocks)) = ViewTip
  BY <1>1, <1>2, ForwardFits, HeldConfirm DEF ViewTip
<1>7. first \in Point /\ Tail(unconfirmedBlocks) \in Seq(Block)
  BY <1>1, <1>2, ForwardFits
<1>8. Held(first, unconfirmedBlocks') /\ TipOf(first, unconfirmedBlocks') = b
  BY <1>1, <1>3, <1>6, <1>7, ForwardFits, HeldAppend
<1>9. ViewTip' = b
  BY <1>3, <1>8 DEF ViewTip
<1>10. Started'
  BY <1>1, ForwardFits DEF Started
<1> QED
  BY <1>1, <1>2, <1>3, <1>4, <1>5, <1>6, <1>8, <1>9, <1>10, ForwardFits

\* When RollForward confirms the oldest held block, the chain of moves is the same
\* one, cut at another place.
LEMMA FollowsNodeConfirm ==
  ASSUME Inv, ExecuteConfirm
  PROVE  FollowsNode'
  BY ConfirmStep DEF FollowsNode, Held, Follows

\* Every handler keeps the confirmed block, the held ones and the queued items a
\* chain of moves to the read pointer.
LEMMA FollowsNodeStep == Inv /\ [Next]_vars => FollowsNode'
<1> SUFFICES ASSUME Inv, [Next]_vars PROVE FollowsNode'
  OBVIOUS
<1> USE DEF dbVars, memoryVars, netVars, appVars
<1>1. CASE Connect
  BY <1>1, FollowsNodeReset DEF Connect, Inv
<1>2. CASE IntersectNotFound
  BY <1>2, FollowsNodeReset DEF IntersectNotFound, Inv
<1>3. CASE ResetFails
  BY <1>3 DEF ResetFails, FollowsNode, Started
<1>4. CASE Disconnect
  BY <1>4, FollowsNodeFrame DEF Disconnect, Pending
<1>5. ASSUME NEW b \in Block, NodeRollForward(b) PROVE FollowsNode'
  BY <1>5, ItemType, FollowsNodeEnqueue DEF NodeRollForward, Leads
<1>6. ASSUME NEW p \in Point, NodeRollBackward(p) PROVE FollowsNode'
  BY <1>6, ItemType, FollowsNodeEnqueue DEF NodeRollBackward, Leads
<1>7. CASE ExecuteBackward
  BY <1>7, FollowsNodeBackward
<1>8. CASE ExecuteFatal
  <2>1. Started /\ Started' /\ UNCHANGED <<savedBlockPoint, latestBlockPoint, unconfirmedBlocks, pointer>>
        /\ Pending' = Pending /\ GetLatestPoint' = GetLatestPoint /\ ViewTip' = ViewTip
    BY <1>8 DEF ExecuteFatal, RollBackwardFatal, NextItem, Started, Pending, GetLatestPoint, ViewTip
  <2> QED
    BY <2>1 DEF Inv, FollowsNode
<1>9. CASE ExecuteForward
  BY <1>9, FollowsNodeForward
<1>10. CASE ExecuteConfirm
  BY <1>10, FollowsNodeConfirm
<1>11. CASE ExecuteFails
  BY <1>11, FollowsNodeFrame DEF ExecuteFails, RollForwardFails, Pending
<1>12. CASE HandlerReads
  BY <1>12, FollowsNodeFrame DEF HandlerReads, Pending
<1>13. CASE HandlerMarks
  <2>1. handling # NoBlock /\ handling' = NoBlock /\ queue' = Tail(queue)
        /\ UNCHANGED <<savedBlockPoint, latestBlockPoint, unconfirmedBlocks, pointer, loop>>
    BY <1>13 DEF HandlerMarks, HandlerReturns, ItemDone, MarkConfirmedTxsProcessed
  <2> QED
    BY <2>1, FollowsNodeFrame DEF Pending
<1>14. CASE HandlerFails
  <2>1. handling # NoBlock /\ handling' = NoBlock /\ queue' = Tail(queue)
        /\ UNCHANGED <<savedBlockPoint, latestBlockPoint, unconfirmedBlocks, pointer, loop>>
    BY <1>14 DEF HandlerFails, HandlerReturns, ItemDone
  <2> QED
    BY <2>1, FollowsNodeFrame DEF Pending
<1>15. CASE AddAddresses
  BY <1>15, FollowsNodeFrame DEF AddAddresses, AddNewAddressesOfInterest, Pending
<1>16. CASE Crash
  BY <1>16 DEF Crash, FollowsNode, Started
<1>17. CASE UNCHANGED vars
  BY <1>17, FollowsNodeFrame DEF vars, Pending
<1> QED
  BY <1>1, <1>2, <1>3, <1>4, <1>5, <1>6, <1>7, <1>8, <1>9, <1>10, <1>11, <1>12,
     <1>13, <1>14, <1>15, <1>16, <1>17 DEF Next, NodeNext, LoopNext

\* The rollback at which the loop gave up stays the head of the queue, and it
\* goes below the latest confirmed block.
LEMMA FatalStep ==
  Inv /\ [Next]_vars => FatalMeansOrphaned' /\ (loop' = "fatal" => queue' # << >>)
<1> SUFFICES ASSUME Inv, [Next]_vars, loop' = "fatal"
             PROVE  /\ Head(queue').point \in Ancestors(latestBlockPoint') \ {latestBlockPoint'}
                    /\ queue' # << >>
  BY DEF FatalMeansOrphaned
<1> USE DEF dbVars, memoryVars, netVars, appVars
\* The steps that leave the loop fatal, when it was.
<1>1. ASSUME loop = "fatal", Head(queue') = Head(queue), queue' # << >>,
             latestBlockPoint' = latestBlockPoint
      PROVE  /\ Head(queue').point \in Ancestors(latestBlockPoint') \ {latestBlockPoint'}
             /\ queue' # << >>
  BY <1>1 DEF Inv, FatalMeansOrphaned
<1>2. ASSUME NEW item, Enqueue(item)
      PROVE  loop = "fatal" /\ Head(queue') = Head(queue) /\ queue' # << >>
             /\ latestBlockPoint' = latestBlockPoint
  <2>1. loop = "fatal" /\ queue' = Append(queue, item) /\ latestBlockPoint' = latestBlockPoint
    BY <1>2 DEF Enqueue
  <2>2. queue \in Seq(Item) /\ queue # << >>
    BY <2>1 DEF Inv, TypeOK
  <2> QED
    BY <2>1, <2>2
<1>3. CASE NodeNext
  BY <1>1, <1>2, <1>3 DEF NodeNext, NodeRollForward, NodeRollBackward
<1>4. CASE ExecuteFatal
  <2>1. NextItem("backward") /\ handling = NoBlock /\ queue' = queue /\ queue # << >>
        /\ latestBlockPoint' = latestBlockPoint
        /\ latestBlockPoint # Head(queue).point
        /\ \A i \in DOMAIN unconfirmedBlocks : unconfirmedBlocks[i] # Head(queue).point
    BY <1>4 DEF ExecuteFatal, RollBackwardFatal, NextItem
  <2>2. Started /\ Pending = queue /\ queue \in Seq(Item)
    BY <2>1 DEF NextItem, Started, Pending, Inv, TypeOK
  <2>3. /\ ViewTip \in Point /\ latestBlockPoint \in Point /\ unconfirmedBlocks \in Seq(Block)
        /\ Held(latestBlockPoint, unconfirmedBlocks)
        /\ Follows(ViewTip, queue, pointer)
    BY <2>2, DerivedTypes, FollowsNodeDef DEF Inv, TypeOK
  <2>4. Leads(ViewTip, Head(queue))
    BY <2>1, <2>2, <2>3, FollowsPop
  <2>5. Head(queue).point \in Ancestors(ViewTip)
    BY <2>1, <2>4 DEF Leads, NextItem
  <2>6. Head(queue).point \in Ancestors(latestBlockPoint)
    BY <2>1, <2>3, <2>5, HeldAncestor DEF ViewTip
  <2> QED
    BY <2>1, <2>6
<1>5. CASE Disconnect \/ AddAddresses \/ UNCHANGED vars
  BY <1>1, <1>5 DEF Disconnect, AddAddresses, AddNewAddressesOfInterest, vars, Inv
<1>6. CASE Connect \/ IntersectNotFound \/ ResetFails \/ Crash
  BY <1>6 DEF Connect, IntersectNotFound, ResetFails, Crash
<1>7. CASE ExecuteBackward \/ ExecuteForward \/ ExecuteConfirm \/ ExecuteFails
  BY <1>7 DEF ExecuteBackward, ExecuteForward, ExecuteConfirm, ExecuteFails, NextItem, ItemDone
<1>8. CASE HandlerReads \/ HandlerMarks \/ HandlerFails
  BY <1>8 DEF HandlerReads, HandlerMarks, HandlerFails, HandlerReturns, ItemDone, Inv, TypeOK
<1> QED
  BY <1>3, <1>4, <1>5, <1>6, <1>7, <1>8 DEF Next, LoopNext

-----------------------------------------------------------------------------
(* The chain: the theorems *)

\* Every reachable state of the pipeline satisfies the inductive invariant.
THEOREM InvCorrect == Spec => []Inv
<1>1. Inv /\ [Next]_vars => Inv'
  BY TypeStep, FollowsNodeStep, FatalStep DEF Inv
<1> QED
  BY <1>1, InvInit, PTL DEF Spec

\* The pipeline's state is well formed: TypeOK of IndexerPipeline.
THEOREM TypeCorrect == Spec => []TypeOK
  BY InvCorrect, PTL DEF Inv

\* Memory, database, queue and read pointer stay one chain (RollForward,
\* RollBackward and Reset of BlockIndexer under any forks and crashes).
THEOREM FollowsNodeCorrect == Spec => []FollowsNode
  BY InvCorrect, PTL DEF Inv

\* With its queue drained the indexer's view is the node's chain, block by block.
THEOREM ViewCorrect == Spec => []ViewIsNodeChain
<1>1. Inv => ViewIsNodeChain
  <2> SUFFICES ASSUME Inv, loop = "running", Pending = << >>
               PROVE  PathTo[pointer] = PathTo[latestBlockPoint] \o unconfirmedBlocks
    BY DEF ViewIsNodeChain
  <2>1. Started /\ unconfirmedBlocks \in Seq(Block)
    BY DEF Started, Inv, TypeOK
  <2>2. /\ latestBlockPoint \in Point
        /\ Held(latestBlockPoint, unconfirmedBlocks)
        /\ pointer = ViewTip
    BY <2>1, DerivedTypes, FollowsNodeDef DEF Inv, Follows
  <2> QED
    BY <2>1, <2>2, HeldTip DEF ViewTip
<1> QED
  BY <1>1, InvCorrect, PTL

\* ErrBlockIndexerFatal is raised only for a confirmed block the node abandoned.
THEOREM FatalCorrect == Spec => []FatalMeansOrphaned
  BY InvCorrect, PTL DEF Inv

\* Only ExecuteConfirm writes the latest block point.
LEMMA SavedOnlyByConfirm ==
  [Next]_vars /\ ~ExecuteConfirm => savedBlockPoint' = savedBlockPoint
<1> SUFFICES ASSUME [Next]_vars, ~ExecuteConfirm PROVE savedBlockPoint' = savedBlockPoint
  OBVIOUS
<1> USE DEF dbVars, memoryVars, netVars, appVars
<1>1. CASE Connect \/ IntersectNotFound \/ ResetFails \/ Disconnect
  BY <1>1 DEF Connect, IntersectNotFound, ResetFails, Disconnect, Reset
<1>2. CASE NodeNext
  BY <1>2 DEF NodeNext, NodeRollForward, NodeRollBackward, Enqueue
<1>3. CASE ExecuteBackward \/ ExecuteFatal \/ ExecuteForward \/ ExecuteFails
  BY <1>3 DEF ExecuteBackward, RollBackwardToUnconfirmed, RollBackwardToConfirmed,
              ExecuteFatal, RollBackwardFatal, ExecuteForward, RollForwardNotFull,
              ExecuteFails, RollForwardFails
<1>4. CASE HandlerReads \/ HandlerMarks \/ HandlerFails
  BY <1>4 DEF HandlerReads, HandlerMarks, HandlerFails, MarkConfirmedTxsProcessed
<1>5. CASE AddAddresses \/ Crash \/ UNCHANGED vars
  BY <1>5 DEF AddAddresses, AddNewAddressesOfInterest, Crash, vars
<1> QED
  BY <1>1, <1>2, <1>3, <1>4, <1>5 DEF Next, LoopNext

\* After a confirmation the whole queue of unconfirmed blocks is on top.
LEMMA ConfirmDepth ==
  ASSUME Inv, ExecuteConfirm
  PROVE  /\ savedBlockPoint' \in On(ViewTip')
         /\ Len(PathTo[ViewTip']) = Len(PathTo[savedBlockPoint']) + ConfirmationBlockCount
<1> DEFINE first == unconfirmedBlocks[1]
           s == unconfirmedBlocks'
<1>1. /\ first \in Block /\ savedBlockPoint' = first /\ Held(first, s)
      /\ Len(unconfirmedBlocks) = ConfirmationBlockCount
      /\ s = Append(Tail(unconfirmedBlocks), Head(queue).point)
      /\ Head(queue).point \in Block /\ ViewTip' = Head(queue).point
  BY ConfirmStep
<1>2. unconfirmedBlocks \in Seq(Block) /\ unconfirmedBlocks # << >>
  BY <1>1, Config DEF Inv, TypeOK
<1>3. s \in Seq(Block) /\ Len(s) = ConfirmationBlockCount /\ s # << >>
      /\ s[Len(s)] = Head(queue).point
  BY <1>1, <1>2
<1>4. TipOf(first, s) = ViewTip'
  BY <1>1, <1>3 DEF TipOf
<1>5. PathTo[ViewTip'] = PathTo[first] \o s
  BY <1>1, <1>3, <1>4, HeldTip
<1>6. PathTo[first] \in Seq(Block) /\ PathTo[first] # << >> /\ PathTo[first][Len(PathTo[first])] = first
  BY <1>1, PathType, PathLast
<1>7. Len(PathTo[ViewTip']) = Len(PathTo[first]) + ConfirmationBlockCount
  BY <1>3, <1>5, <1>6
<1>8. Len(PathTo[first]) \in DOMAIN PathTo[ViewTip']
      /\ PathTo[ViewTip'][Len(PathTo[first])] = first
  BY <1>3, <1>5, <1>6
<1> QED
  BY <1>1, <1>7, <1>8 DEF On

\* A block is confirmed only as the child of the last confirmed one and only
\* with ConfirmationBlockCount blocks of the announced chain on top of it.
THEOREM ConfirmsCorrect == Spec => ConfirmsOneDeepBlock
<1> DEFINE A == savedBlockPoint' # savedBlockPoint =>
                  /\ savedBlockPoint' \in Block
                  /\ Parent[savedBlockPoint'] = GetLatestPoint
                  /\ savedBlockPoint' \in On(ViewTip')
                  /\ Len(PathTo[ViewTip']) = Len(PathTo[savedBlockPoint']) + ConfirmationBlockCount
<1>1. Inv /\ [Next]_vars => A
  <2> SUFFICES ASSUME Inv, [Next]_vars, savedBlockPoint' # savedBlockPoint
               PROVE  A
    OBVIOUS
  <2>1. ExecuteConfirm
    BY SavedOnlyByConfirm
  <2>2. savedBlockPoint' \in Block /\ Parent[savedBlockPoint'] = GetLatestPoint
    BY <2>1, ConfirmStep
  <2> QED
    BY <2>1, <2>2, ConfirmDepth
<1>2. Inv /\ [Next]_vars => [A]_vars
  BY <1>1
<1> QED
  BY <1>2, InvCorrect, PTL DEF Spec, ConfirmsOneDeepBlock

-----------------------------------------------------------------------------
(* The chain: the pipeline implements ConfirmedChain *)

HeldBlocks == IF Started THEN unconfirmedBlocks ELSE << >>

\* Losing all held blocks, or all of them above the n-th, is a Drop.
LEMMA DropRefines ==
  ASSUME Inv, savedBlockPoint' = savedBlockPoint,
         \/ HeldBlocks' = << >>
         \/ \E n \in DOMAIN HeldBlocks : HeldBlocks' = SubSeq(HeldBlocks, 1, n)
  PROVE  Confirmed!Drop
<1>1. HeldBlocks \in Seq(Block) /\ Len(HeldBlocks) \in Nat /\ DOMAIN HeldBlocks = 1..Len(HeldBlocks)
  BY DEF HeldBlocks, Inv, TypeOK
<1>2. \E n \in 0..Len(HeldBlocks) : HeldBlocks' = SubSeq(HeldBlocks, 1, n)
  <2>1. CASE HeldBlocks' = << >>
    <3>1. 0 \in 0..Len(HeldBlocks) /\ SubSeq(HeldBlocks, 1, 0) = << >>
      BY <1>1
    <3> QED
      BY <2>1, <3>1
  <2>2. CASE \E n \in DOMAIN HeldBlocks : HeldBlocks' = SubSeq(HeldBlocks, 1, n)
    BY <1>1, <2>2
  <2> QED
    BY <2>1, <2>2
<1>3. GetLatestPoint' = GetLatestPoint
  BY DEF GetLatestPoint
<1> QED
  BY <1>2, <1>3 DEF Confirmed!Drop, HeldBlocks

\* The child of the view's tip fits on the abstract chain.
LEMMA FitsRefines ==
  ASSUME Inv, NextItem("forward"), handling = NoBlock
  PROVE  Confirmed!Fits(Head(queue).point)
<1> DEFINE b == Head(queue).point
           c == PathTo[latestBlockPoint] \o unconfirmedBlocks
<1>1. /\ Started /\ unconfirmedBlocks \in Seq(Block) /\ latestBlockPoint \in Point
      /\ latestBlockPoint = GetLatestPoint
      /\ Held(latestBlockPoint, unconfirmedBlocks) /\ Parent[b] = ViewTip
  BY ForwardFits
<1>2. PathTo[ViewTip] = c /\ ViewTip \in Point
  BY <1>1, HeldTip, TipType DEF ViewTip
<1>3. ASSUME c # << >> PROVE Parent[b] = c[Len(c)]
  <2>1. ViewTip \in Block
    BY <1>2, <1>3, PathAssumption
  <2> QED
    BY <1>1, <1>2, <2>1, PathLast
<1>4. ASSUME c = << >> PROVE Parent[b] = Genesis
  BY <1>1, <1>2, <1>4, PathLast
<1> QED
  BY <1>1, <1>3, <1>4 DEF Confirmed!Fits, Confirmed!Chain

\* A header that is only held adds a held block of the abstract chain.
LEMMA HoldRefines ==
  ASSUME Inv, ExecuteForward
  PROVE  Confirmed!Hold(Head(queue).point)
<1>1. NextItem("forward") /\ handling = NoBlock
      /\ Len(unconfirmedBlocks) # ConfirmationBlockCount
      /\ unconfirmedBlocks' = Append(unconfirmedBlocks, Head(queue).point)
      /\ UNCHANGED <<savedBlockPoint, loop>>
  BY DEF ExecuteForward, RollForwardNotFull, ItemDone, dbVars, IsFull
<1>2. Confirmed!Fits(Head(queue).point)
  BY <1>1, FitsRefines
<1>3. Started /\ Started' /\ GetLatestPoint' = GetLatestPoint
  BY <1>1, ForwardFits DEF Started, GetLatestPoint
<1>4. Len(unconfirmedBlocks) < ConfirmationBlockCount
  BY <1>1, Config DEF Inv, TypeOK
<1> QED
  BY <1>1, <1>2, <1>3, <1>4 DEF Confirmed!Hold

\* A confirmation moves the oldest held block to the end of the abstract chain.
LEMMA ConfirmRefines ==
  ASSUME Inv, ExecuteConfirm
  PROVE  Confirmed!Confirm(Head(queue).point)
<1>1. NextItem("forward") /\ handling = NoBlock
  BY DEF ExecuteConfirm, RollForwardConfirm
<1>2. Confirmed!Fits(Head(queue).point)
  BY <1>1, FitsRefines
<1>3. PathTo[GetLatestPoint'] = Append(PathTo[GetLatestPoint], unconfirmedBlocks[1])
  BY ConfirmStep
<1> QED
  BY <1>2, <1>3, ConfirmStep DEF Confirmed!Confirm

\* Every step of the pipeline is a step of ConfirmedChain or leaves it alone.
LEMMA RefinementStep ==
  Inv /\ [Next]_vars =>
    Confirmed!Next \/ UNCHANGED <<PathTo[GetLatestPoint], HeldBlocks>>
<1> SUFFICES ASSUME Inv, [Next]_vars
             PROVE  Confirmed!Next \/ UNCHANGED <<PathTo[GetLatestPoint], HeldBlocks>>
  OBVIOUS
<1> USE DEF dbVars, memoryVars, netVars, appVars
<1>1. ASSUME savedBlockPoint' = savedBlockPoint, unconfirmedBlocks' = unconfirmedBlocks, Started' = Started
      PROVE  UNCHANGED <<PathTo[GetLatestPoint], HeldBlocks>>
  BY <1>1 DEF GetLatestPoint, HeldBlocks
<1>2. CASE Connect \/ IntersectNotFound \/ ResetFails \/ Crash
  <2>1. HeldBlocks' = << >> /\ savedBlockPoint' = savedBlockPoint
    BY <1>2 DEF Connect, IntersectNotFound, ResetFails, Crash, Reset, HeldBlocks, Started
  <2> QED
    BY <2>1, DropRefines DEF Confirmed!Next
<1>3. CASE ExecuteBackward
  <2>1. Started /\ Started' /\ savedBlockPoint' = savedBlockPoint
    BY <1>3 DEF ExecuteBackward, NextItem, ItemDone, Started, RollBackwardToConfirmed, RollBackwardToUnconfirmed
  <2>2. \/ unconfirmedBlocks' = << >>
        \/ \E n \in DOMAIN unconfirmedBlocks : unconfirmedBlocks' = SubSeq(unconfirmedBlocks, 1, n)
    BY <1>3 DEF ExecuteBackward, RollBackwardToConfirmed, RollBackwardToUnconfirmed
  <2> QED
    BY <2>1, <2>2, DropRefines DEF HeldBlocks, Confirmed!Next
<1>4. CASE ExecuteForward
  <2>1. Head(queue).point \in Block
    BY <1>4, ForwardFits DEF ExecuteForward, RollForwardNotFull
  <2> QED
    BY <1>4, <2>1, HoldRefines DEF Confirmed!Next
<1>5. CASE ExecuteConfirm
  BY <1>5, ConfirmStep, ConfirmRefines DEF Confirmed!Next
<1>6. CASE NodeNext \/ Disconnect
  BY <1>1, <1>6 DEF NodeNext, NodeRollForward, NodeRollBackward, Enqueue, Disconnect, Started
<1>7. CASE ExecuteFatal \/ ExecuteFails
  BY <1>1, <1>7 DEF ExecuteFatal, RollBackwardFatal, ExecuteFails, RollForwardFails, NextItem, Started
<1>8. CASE HandlerReads \/ HandlerMarks \/ HandlerFails
  BY <1>1, <1>8 DEF HandlerReads, HandlerMarks, HandlerFails, HandlerReturns, ItemDone, MarkConfirmedTxsProcessed, Started
<1>9. CASE AddAddresses \/ UNCHANGED vars
  BY <1>1, <1>9 DEF AddAddresses, AddNewAddressesOfInterest, vars, Started
<1> QED
  BY <1>2, <1>3, <1>4, <1>5, <1>6, <1>7, <1>8, <1>9 DEF Next, LoopNext

\* The indexer, with its node, queue, handler, crashes and restarts, implements
\* the append-only chain of confirmed blocks.
THEOREM RefinementCorrect == Spec => ImplementsConfirmedChain
<1>1. Init => Confirmed!Init
  BY DEF Init, InitDB, GetLatestPoint, Started, Confirmed!Init
<1>2. Inv /\ [Next]_vars =>
        [Confirmed!Next]_<<PathTo[GetLatestPoint], IF Started THEN unconfirmedBlocks ELSE << >> >>
  BY RefinementStep DEF HeldBlocks
<1> QED
  BY <1>1, <1>2, InvCorrect, PTL DEF Spec, ImplementsConfirmedChain, Confirmed!Spec

-----------------------------------------------------------------------------
(* The data: what the database holds *)

\* Which transactions are found, and with them the outputs they create and the
\* outputs they spend, depends on the configuration.
OutputsFound == AddressCheckOutputs \/ KeepAllTxOutputsInDB
InputsFound == AddressCheckInputs \/ KeepAllTxOutputsInDB

\* The confirmed chain stands on the starting point, and addresses of interest
\* are never dropped.
StandsOnStart ==
  /\ StartPoint \in Ancestors(GetLatestPoint)
  /\ AddressesOfInterest \subseteq addressesOfInterest

\* An output of the bucket is one of the confirmed chain, with its address.
OutputsStored ==
  \A ref \in DOMAIN txOutputs :
    /\ ref \in Created(ConfirmedPath)
    /\ txOutputs[ref] \in [address : {AddressOf(ref)}, used : BOOLEAN]

\* The keys of stored transactions have slots of the confirmed chain, and what
\* a handler has read is all that there is until it returns.
TxsStored ==
  /\ \A key \in DOMAIN unprocessedTxs \cup DOMAIN processedTxs :
       \E b \in ConfirmedPath : key[1] = Slot[b]
  /\ readTxs # NotRead =>
       readTxs = [key \in DOMAIN unprocessedTxs |-> unprocessedTxs[key]]

\* The bucket of blocks has every confirmed block, and no other.
BlocksStored ==
  /\ DOMAIN confirmedBlocks = {Slot[b] : b \in ConfirmedPath}
  /\ \A b \in ConfirmedPath : confirmedBlocks[Slot[b]].hash = b

StoreInv ==
  /\ StandsOnStart
  /\ OutputsStored
  /\ TxsStored
  /\ BlocksStored
  /\ KeepAllTxOutputsInDB => UtxosExact
  /\ OutputsFound => UtxosComplete /\ NoTxLost
  /\ InputsFound => StaleUtxosOnlyFromOwnBlock
  /\ DOMAIN unprocessedTxs \cap DOMAIN processedTxs = {}
  /\ DOMAIN processedTxs \subseteq delivered

-----------------------------------------------------------------------------
(* The data: confirming a block *)

\* The transactions whose outputs are stored, and what is added and removed.
StoredTxs(b) ==
  IF KeepAllTxOutputsInDB THEN TxsIn(b) ELSE {TxsOf[b][i] : i \in FilterTxsOfInterest(b)}
Added(b) == GetTxOutputs(StoredTxs(b), KeepAllTxOutputsInDB)
Removed(b) == GetTxInputs(StoredTxs(b), KeepAllTxOutputsInDB)

\* The confirmed chain grows by the oldest held block, which is new on it and
\* obeys the ledger's rules.
LEMMA ConfirmedPathStep ==
  ASSUME Inv, StandsOnStart, ExecuteConfirm
  PROVE  LET b == unconfirmedBlocks[1]
         IN  /\ b \in Block /\ b \notin ConfirmedPath
             /\ ConfirmedPath' = ConfirmedPath \cup {b}
             /\ ConfirmedPath \subseteq Block
             /\ ConfirmedPath = On(Parent[b]) \ On(StartPoint)
             /\ \A c \in ConfirmedPath : Slot[c] < Slot[b]
             /\ StandsOnStart'
<1> DEFINE b == unconfirmedBlocks[1]
<1>1. /\ b \in Block /\ GetLatestPoint' = b
      /\ GetLatestPoint \in Point /\ Parent[b] = GetLatestPoint
  BY ConfirmStep
<1>2. On(b) = On(GetLatestPoint) \cup {b} /\ b \notin On(GetLatestPoint)
      /\ \A q \in On(GetLatestPoint) : Slot[q] < Slot[b]
  BY <1>1, OnChild, ChildIsNew
<1>3. On(StartPoint) \subseteq On(GetLatestPoint)
  BY <1>1, OnTransitive, OnGenesis DEF StandsOnStart, Ancestors
<1>4. ConfirmedPath' = On(b) \ On(StartPoint)
  BY <1>1 DEF ConfirmedPath
<1>5. On(GetLatestPoint) \subseteq Block
  BY <1>1, OnType
<1>6. StandsOnStart'
  <2>1. addressesOfInterest' = addressesOfInterest
    BY DEF ExecuteConfirm, RollForwardConfirm
  <2>2. Ancestors(GetLatestPoint)' = Ancestors(b)
    BY <1>1 DEF Ancestors, On
  <2> QED
    BY <1>2, <2>1, <2>2 DEF StandsOnStart, Ancestors
<1> QED
  BY <1>1, <1>2, <1>3, <1>4, <1>5, <1>6 DEF ConfirmedPath

\* The ledger's rules on the confirmed chain.
LEMMA ConfirmedLedger ==
  ASSUME Inv, StandsOnStart, ExecuteConfirm
  PROVE  LET b == unconfirmedBlocks[1]
         IN  /\ Created(ConfirmedPath') = Created(ConfirmedPath) \cup Created({b})
             /\ Spent(ConfirmedPath') = Spent(ConfirmedPath) \cup Spent({b})
             /\ Created({b}) \cap Created(ConfirmedPath) = {}
             /\ Spent({b}) \cap Spent(ConfirmedPath) = {}
             /\ Created({b}) \cap Spent(ConfirmedPath) = {}
<1> DEFINE b == unconfirmedBlocks[1]
<1>1. b \in Block /\ ConfirmedPath' = ConfirmedPath \cup {b} /\ ConfirmedPath \subseteq On(Parent[b])
  BY ConfirmedPathStep
<1>2. Created(ConfirmedPath) \subseteq Created(On(Parent[b])) /\ Spent(ConfirmedPath) \subseteq Spent(On(Parent[b]))
  BY <1>1, CreatedSubset, SpentSubset
<1> HIDE DEF b
<1>3. /\ Created(ConfirmedPath \cup {b}) = Created(ConfirmedPath) \cup Created({b})
      /\ Spent(ConfirmedPath \cup {b}) = Spent(ConfirmedPath) \cup Spent({b})
  BY CreatedUnion, SpentUnion, Zenon
<1>4. /\ Created({b}) \cap Created(On(Parent[b])) = {}
      /\ Spent({b}) \cap Spent(On(Parent[b])) = {}
      /\ Created({b}) \cap Spent(On(Parent[b])) = {}
  BY <1>1, LedgerOfBlock
<1> QED
  BY <1>1, <1>2, <1>3, <1>4 DEF b

\* The transactions of interest are transactions of the block.
LEMMA StoredTxsType ==
  ASSUME NEW b \in Block PROVE StoredTxs(b) \subseteq TxsIn(b)
  BY DEF StoredTxs, FilterTxsOfInterest, TxsIn

\* A confirmation adds outputs that the block creates and removes outputs that it
\* spends, all of them with KeepAllTxOutputsInDB.
LEMMA AddedType ==
  ASSUME NEW b \in Block
  PROVE  /\ Added(b) \subseteq Created({b})
         /\ Removed(b) \subseteq Spent({b})
         /\ KeepAllTxOutputsInDB => Added(b) = Created({b}) /\ Removed(b) = Spent({b})
<1>1. StoredTxs(b) \subseteq TxsIn(b) /\ (KeepAllTxOutputsInDB => StoredTxs(b) = TxsIn(b))
  BY StoredTxsType DEF StoredTxs
<1>2. Created({b}) = UNION {{<<t, i>> : i \in DOMAIN Outs[t]} : t \in TxsIn(b)}
  BY CreatedOne
<1>3. Spent({b}) = UNION {Ins[t] : t \in TxsIn(b)}
  BY SpentOne
<1>4. Added(b) \subseteq Created({b}) /\ (KeepAllTxOutputsInDB => Added(b) = Created({b}))
  BY <1>1, <1>2 DEF Added, GetTxOutputs
<1>5. Removed(b) \subseteq Spent({b}) /\ (KeepAllTxOutputsInDB => Removed(b) = Spent({b}))
  BY <1>1, <1>3 DEF Removed, GetTxInputs
<1> QED
  BY <1>4, <1>5

\* A configured address that is paid is noticed when outputs are looked at.
LEMMA PaidIsAdded ==
  ASSUME StandsOnStart, OutputsFound, NEW b \in Block, NEW ref \in Created({b}),
         AddressOf(ref) \in AddressesOfInterest
  PROVE  ref \in Added(b)
<1>1. CASE KeepAllTxOutputsInDB
  BY <1>1, AddedType
<1>2. CASE ~KeepAllTxOutputsInDB /\ AddressCheckOutputs
  <2> DEFINE t == ref[1]
             i == ref[2]
  <2>1. t \in TxsIn(b) /\ i \in DOMAIN Outs[t] /\ ref = <<t, i>>
    BY CreatedBy, TxsInOne
  <2>2. ref \in UNION {{<<u, j>> : j \in DOMAIN Outs[u]} : u \in {t}}
    BY <2>1
  <2>3. Outs[t][i] \in addressesOfInterest /\ AddressOf(ref) \in addressesOfInterest
    BY <2>1 DEF AddressOf, StandsOnStart
  <2>4. IsTxOutputOfInterest(t)
    BY <1>2, <2>1, <2>3 DEF IsTxOutputOfInterest
  <2>5. t \in StoredTxs(b)
    BY <1>2, <2>1, <2>4, TxsInType DEF StoredTxs, FilterTxsOfInterest
  <2>6. OfInterest(AddressOf(ref))
    BY <2>3 DEF OfInterest
  <2> QED
    BY <2>2, <2>5, <2>6 DEF Added, GetTxOutputs
<1> QED
  BY <1>1, <1>2 DEF OutputsFound

\* Spending a stored output of a configured address is noticed when inputs are
\* looked at.
LEMMA SpentIsRemoved ==
  ASSUME StandsOnStart, OutputsStored, InputsFound, NEW b \in Block, NEW ref \in Spent({b}),
         ref \in DOMAIN txOutputs, AddressOf(ref) \in AddressesOfInterest
  PROVE  ref \in Removed(b)
<1>1. CASE KeepAllTxOutputsInDB
  BY <1>1, AddedType
<1>2. CASE ~KeepAllTxOutputsInDB /\ AddressCheckInputs
  <2>1. PICK t \in TxsIn(b) : ref \in Ins[t]
    BY SpentOne
  <2>2. GetTxOutput(ref).address \in addressesOfInterest
    BY DEF GetTxOutput, OutputsStored, StandsOnStart
  <2>3. IsTxInputOfInterest(t)
    BY <1>2, <2>1, <2>2 DEF IsTxInputOfInterest
  <2>4. t \in StoredTxs(b)
    BY <1>2, <2>3, TxsInType DEF StoredTxs, FilterTxsOfInterest
  <2>5. OfInterest(GetTxOutput(ref).address)
    BY <2>2 DEF OfInterest
  <2> QED
    BY <2>1, <2>4, <2>5 DEF Removed, GetTxInputs
<1> QED
  BY <1>1, <1>2 DEF InputsFound

\* What a confirmation writes to the bucket of outputs.
LEMMA WrittenOutputs ==
  ASSUME OutputsStored, NEW b, ProcessConfirmedBlock(b)
  PROVE  /\ \A ref \in DOMAIN txOutputs' :
              /\ ref \in Added(b) \cup DOMAIN txOutputs
              /\ txOutputs'[ref] \in [address : {AddressOf(ref)}, used : BOOLEAN]
         /\ \A A : NotUsedOutputs(A)' =
              ({ref \in Added(b) : AddressOf(ref) \in A} \cup NotUsedOutputs(A)) \ Removed(b)
<1> DEFINE new == [ref \in Added(b) |-> [address |-> AddressOf(ref), used |-> FALSE]]
           base == [ref \in Added(b) \cup DOMAIN txOutputs |->
                      IF ref \in Added(b) THEN new[ref] ELSE txOutputs[ref]]
<1>1. AddTxOutputs(txOutputs, Added(b)) = base
  BY DEF AddTxOutputs, Put
<1>2. txOutputs' = RemoveTxOutputs(base, Removed(b), SoftDeleteUtxo)
  BY <1>1 DEF ProcessConfirmedBlock, AddAndRemoveTxOutputs, Added, Removed, StoredTxs
<1>3. \A ref \in DOMAIN base : base[ref] \in [address : {AddressOf(ref)}, used : BOOLEAN]
  BY DEF OutputsStored
<1>4. \A ref \in DOMAIN base :
        ~base[ref].used <=> ref \in Added(b) \/ (ref \in DOMAIN txOutputs /\ ~txOutputs[ref].used)
  OBVIOUS
<1>5. DOMAIN base = Added(b) \cup DOMAIN txOutputs
  OBVIOUS
<1> HIDE DEF base
<1>6. \A ref \in DOMAIN txOutputs' :
        /\ ref \in DOMAIN base
        /\ txOutputs'[ref] \in [address : {AddressOf(ref)}, used : BOOLEAN]
        /\ txOutputs'[ref].used <=> base[ref].used \/ ref \in Removed(b)
  <2>1. CASE SoftDeleteUtxo
    <3>1. txOutputs' = [ref \in DOMAIN base |->
             IF ref \in Removed(b) THEN [base[ref] EXCEPT !.used = TRUE] ELSE base[ref]]
      BY <1>2, <2>1 DEF RemoveTxOutputs
    <3> QED
      BY <1>3, <3>1
  <2>2. CASE ~SoftDeleteUtxo
    <3>1. txOutputs' = [ref \in DOMAIN base \ Removed(b) |-> base[ref]]
      BY <1>2, <2>2 DEF RemoveTxOutputs, Delete
    <3> QED
      BY <1>3, <3>1
  <2> QED
    BY <2>1, <2>2
<1>7. \A ref \in DOMAIN base \ Removed(b) : ref \in DOMAIN txOutputs'
  BY <1>2 DEF RemoveTxOutputs, Delete
<1>8. \A A : NotUsedOutputs(A)' =
        {ref \in DOMAIN base \ Removed(b) : AddressOf(ref) \in A /\ ~base[ref].used}
  BY <1>6, <1>7 DEF NotUsedOutputs
<1>9. \A A : NotUsedOutputs(A) =
        {ref \in DOMAIN txOutputs : AddressOf(ref) \in A /\ ~txOutputs[ref].used}
  BY DEF NotUsedOutputs, OutputsStored
<1> QED
  BY <1>4, <1>5, <1>6, <1>8, <1>9

\* The oldest held block is the one that is processed.
LEMMA ConfirmedBlock ==
  ASSUME Inv, ExecuteConfirm
  PROVE  /\ ProcessConfirmedBlock(unconfirmedBlocks[1])
         /\ handling = NoBlock
         /\ UNCHANGED <<addressesOfInterest, readTxs, delivered, processedTxs>>
<1>1. unconfirmedBlocks # << >> /\ unconfirmedBlocks \in Seq(Block)
  BY Config DEF ExecuteConfirm, RollForwardConfirm, IsFull, Inv, TypeOK
<1>2. Head(unconfirmedBlocks) = unconfirmedBlocks[1]
  BY <1>1
<1> QED
  BY <1>2 DEF ExecuteConfirm, RollForwardConfirm, ProcessConfirmedBlock, appVars

\* Confirming a block keeps the bucket of outputs what the ledger says.
LEMMA OutputsConfirm ==
  ASSUME Inv, StoreInv, ExecuteConfirm
  PROVE  /\ OutputsStored'
         /\ KeepAllTxOutputsInDB => UtxosExact'
         /\ OutputsFound => UtxosComplete'
         /\ InputsFound => StaleUtxosOnlyFromOwnBlock'
<1> DEFINE b == unconfirmedBlocks[1]
           P == ConfirmedPath
           Q == ConfirmedPath'
<1>1. StandsOnStart /\ OutputsStored
  BY DEF StoreInv
<1>2. b \in Block /\ b \notin P /\ Q = P \cup {b} /\ ProcessConfirmedBlock(b)
  BY <1>1, ConfirmedPathStep, ConfirmedBlock
<1>3. /\ Created(Q) = Created(P) \cup Created({b})
      /\ Spent(Q) = Spent(P) \cup Spent({b})
      /\ Created({b}) \cap Created(P) = {}
      /\ Spent({b}) \cap Spent(P) = {}
      /\ Created({b}) \cap Spent(P) = {}
  BY <1>1, ConfirmedLedger
<1>4. /\ \A ref \in DOMAIN txOutputs' :
           /\ ref \in Added(b) \cup DOMAIN txOutputs
           /\ txOutputs'[ref] \in [address : {AddressOf(ref)}, used : BOOLEAN]
      /\ \A A : NotUsedOutputs(A)' =
           ({ref \in Added(b) : AddressOf(ref) \in A} \cup NotUsedOutputs(A)) \ Removed(b)
  BY <1>1, <1>2, WrittenOutputs
<1>5. /\ Added(b) \subseteq Created({b})
      /\ Removed(b) \subseteq Spent({b})
      /\ KeepAllTxOutputsInDB => Added(b) = Created({b}) /\ Removed(b) = Spent({b})
  BY <1>2, AddedType
<1>created. Created(ConfirmedPath)' = Created(Q) /\ Spent(ConfirmedPath)' = Spent(Q)
  BY DEF Created, Spent, TxsInBlocks
<1> HIDE DEF b, P, Q
<1>6. OutputsStored'
  BY <1>1, <1>3, <1>4, <1>5, <1>created DEF OutputsStored, P
<1>7. ASSUME KeepAllTxOutputsInDB PROVE UtxosExact'
  <2>1. NotUsedOutputs(Address) = Created(P) \ Spent(P)
    BY <1>7 DEF StoreInv, UtxosExact, P
  <2>2. \A ref \in Created({b}) : AddressOf(ref) \in Address
    BY <1>2, CreatedBy, TxsInOne, TxsInType, TxAssumption DEF AddressOf
  <2>3. NotUsedOutputs(Address)' = (Created({b}) \cup NotUsedOutputs(Address)) \ Spent({b})
    BY <1>4, <1>5, <1>7, <2>2
  <2>4. NotUsedOutputs(Address)' = Created(Q) \ Spent(Q)
    BY <1>3, <2>1, <2>3
  <2> QED
    BY <1>created, <2>4 DEF UtxosExact
<1>8. ASSUME OutputsFound PROVE UtxosComplete'
  <2>1. {ref \in Created(P) \ Spent(P) : AddressOf(ref) \in AddressesOfInterest}
          \subseteq NotUsedOutputs(AddressesOfInterest)
    BY <1>8 DEF StoreInv, UtxosComplete, P
  <2>2. \A ref \in Created({b}) : AddressOf(ref) \in AddressesOfInterest => ref \in Added(b)
    BY <1>1, <1>2, <1>8, PaidIsAdded
  <2>3. {ref \in Created(Q) \ Spent(Q) : AddressOf(ref) \in AddressesOfInterest}
          \subseteq NotUsedOutputs(AddressesOfInterest)'
    BY <1>3, <1>4, <1>5, <2>1, <2>2
  <2> QED
    BY <1>created, <2>3 DEF UtxosComplete
<1>9. ASSUME InputsFound PROVE StaleUtxosOnlyFromOwnBlock'
  <2> SUFFICES ASSUME NEW ref \in NotUsedOutputs(AddressesOfInterest)'
               PROVE  \E c \in Q : ref \in Created({c}) /\ ref \notin Spent(Q \ {c})
    BY DEF StaleUtxosOnlyFromOwnBlock, Created, Spent, TxsInBlocks, Q
  <2>1. CASE ref \in Added(b)
    <3>1. Q \ {b} = P
      BY <1>2
    <3>2. ref \in Created({b}) /\ ref \notin Spent(P)
      BY <1>3, <1>5, <2>1
    <3> QED
      BY <1>2, <3>1, <3>2
  <2>2. CASE ref \notin Added(b)
    <3>1. ref \in NotUsedOutputs(AddressesOfInterest) /\ ref \notin Removed(b)
      BY <1>4, <2>2
    <3>2. PICK c \in P : ref \in Created({c}) /\ ref \notin Spent(P \ {c})
      BY <1>9, <3>1 DEF StoreInv, StaleUtxosOnlyFromOwnBlock, P
    <3>3. ref \in DOMAIN txOutputs /\ AddressOf(ref) \in AddressesOfInterest
      BY <1>1, <3>1 DEF NotUsedOutputs, OutputsStored
    <3>4. ref \notin Spent({b})
      BY <1>1, <1>2, <1>9, <3>1, <3>3, SpentIsRemoved
    <3>5. Q \ {c} = (P \ {c}) \cup {b}
      BY <1>2, <3>2
    <3>6. Spent((P \ {c}) \cup {b}) = Spent(P \ {c}) \cup Spent({b})
      BY SpentUnion, Zenon
    <3> QED
      BY <1>2, <3>2, <3>4, <3>5, <3>6
  <2> QED
    BY <2>1, <2>2
<1> QED
  BY <1>6, <1>7, <1>8, <1>9

\* The slot of a confirmed block was free.
LEMMA BlocksConfirm ==
  ASSUME Inv, StoreInv, ExecuteConfirm
  PROVE  BlocksStored'
<1> DEFINE b == unconfirmedBlocks[1]
           P == ConfirmedPath
<1>1. /\ b \in Block /\ ConfirmedPath' = P \cup {b} /\ P \subseteq Block
      /\ \A c \in P : Slot[c] < Slot[b]
  BY ConfirmedPathStep DEF StoreInv
<1>2. \A c \in P : Slot[c] # Slot[b]
  BY <1>1, BlockAssumption
<1>3. ProcessConfirmedBlock(b)
  BY ConfirmedBlock
<1>4. PICK hashes :
        confirmedBlocks' =
          [k \in {Slot[b]} \cup DOMAIN confirmedBlocks |->
             IF k \in {Slot[b]} THEN [key \in {Slot[b]} |-> [hash |-> b, txs |-> hashes]][k]
             ELSE confirmedBlocks[k]]
  <2> DEFINE hs == IF KeepAllTxsHashesInBlock THEN TxsIn(b)
                   ELSE {TxsOf[b][i] : i \in FilterTxsOfInterest(b)}
  <2>1. AddConfirmedBlock(b, hs)
    BY <1>3 DEF ProcessConfirmedBlock
  <2> HIDE DEF hs
  <2> QED
    BY <2>1 DEF AddConfirmedBlock, Put, BlockKey
<1>5. DOMAIN confirmedBlocks = {Slot[c] : c \in P} /\ \A c \in P : confirmedBlocks[Slot[c]].hash = c
  BY DEF StoreInv, BlocksStored
<1> HIDE DEF b, P
<1>6. DOMAIN confirmedBlocks' = {Slot[c] : c \in P \cup {b}}
  BY <1>4, <1>5
<1>7. \A c \in P \cup {b} : confirmedBlocks'[Slot[c]].hash = c
  <2>1. confirmedBlocks'[Slot[b]].hash = b
    BY <1>4
  <2>2. ASSUME NEW c \in P PROVE confirmedBlocks'[Slot[c]].hash = c
    BY <1>2, <1>4, <1>5
  <2> QED
    BY <2>1, <2>2
<1> QED
  BY <1>1, <1>6, <1>7 DEF BlocksStored

\* A transaction that touches a configured address is of interest when its
\* block is confirmed.
LEMMA TouchesIsOfInterest ==
  ASSUME Inv, StoreInv, ExecuteConfirm, OutputsFound,
         NEW i \in DOMAIN TxsOf[unconfirmedBlocks[1]],
         Touches(unconfirmedBlocks[1], TxsOf[unconfirmedBlocks[1]][i])
  PROVE  i \in FilterTxsOfInterest(unconfirmedBlocks[1])
<1> DEFINE b == unconfirmedBlocks[1]
           t == TxsOf[b][i]
<1>1. /\ b \in Block /\ ConfirmedPath = On(Parent[b]) \ On(StartPoint)
      /\ AddressesOfInterest \subseteq addressesOfInterest
  BY ConfirmedPathStep DEF StoreInv, StandsOnStart
<1>2. CASE AddressCheckOutputs /\ \E j \in DOMAIN Outs[t] : Outs[t][j] \in AddressesOfInterest
  BY <1>1, <1>2 DEF FilterTxsOfInterest, IsTxOutputOfInterest
<1>3. CASE /\ AddressCheckInputs
           /\ \E ref \in Ins[t] \cap Created(On(Parent[b]) \ On(StartPoint)) :
                AddressOf(ref) \in AddressesOfInterest
  <2>1. PICK ref \in Ins[t] :
          ref \in Created(ConfirmedPath) /\ AddressOf(ref) \in AddressesOfInterest
    BY <1>1, <1>3
  <2>2. ref \in Spent({b})
    BY <1>1, <2>1, SpentOne, TxsInType
  <2>3. ref \notin Spent(ConfirmedPath)
    BY <2>2, ConfirmedLedger DEF StoreInv
  <2>4. ref \in NotUsedOutputs(AddressesOfInterest)
    BY <2>1, <2>3 DEF StoreInv, UtxosComplete
  <2>5. ref \in DOMAIN txOutputs /\ txOutputs[ref].address \in addressesOfInterest
    BY <1>1, <2>4 DEF NotUsedOutputs
  <2>6. IsTxInputOfInterest(t)
    BY <1>3, <2>1, <2>5 DEF IsTxInputOfInterest, GetTxOutput
  <2> QED
    BY <2>6 DEF FilterTxsOfInterest
<1> QED
  BY <1>2, <1>3 DEF Touches

TxIsStored(b, i) ==
  \/ TxKey(b, i) \in DOMAIN unprocessedTxs /\ unprocessedTxs[TxKey(b, i)].hash = TxsOf[b][i]
  \/ TxKey(b, i) \in DOMAIN processedTxs /\ processedTxs[TxKey(b, i)].hash = TxsOf[b][i]

TxsComplete ==
  \A b \in ConfirmedPath : \A i \in DOMAIN TxsOf[b] : Touches(b, TxsOf[b][i]) => TxIsStored(b, i)

\* The new keys are those of the block's slot.
LEMMA TxsConfirm ==
  ASSUME Inv, StoreInv, ExecuteConfirm
  PROVE  /\ TxsStored'
         /\ OutputsFound => TxsComplete'
         /\ DOMAIN unprocessedTxs' \cap DOMAIN processedTxs' = {}
<1> DEFINE b == unconfirmedBlocks[1]
           P == ConfirmedPath
           keys == {TxKey(b, i) : i \in FilterTxsOfInterest(b)}
<1>1. /\ b \in Block /\ ConfirmedPath' = P \cup {b} /\ P \subseteq Block
      /\ \A c \in P : Slot[c] < Slot[b]
  BY ConfirmedPathStep DEF StoreInv
<1>2. \A c \in P : Slot[c] # Slot[b]
  BY <1>1, BlockAssumption
<1>3. ProcessConfirmedBlock(b) /\ UNCHANGED <<processedTxs, readTxs>> /\ readTxs = NotRead
  BY ConfirmedBlock DEF Inv, TypeOK
<1>4. PICK new : /\ DOMAIN new = keys
                 /\ \A key \in keys : new[key].hash = TxsOf[b][key[2]]
                 /\ unprocessedTxs' = Put(unprocessedTxs, new)
  BY <1>3 DEF ProcessConfirmedBlock, AddConfirmedTxs
<1>5. /\ DOMAIN unprocessedTxs' = keys \cup DOMAIN unprocessedTxs
      /\ \A key \in keys : unprocessedTxs'[key] = new[key]
      /\ \A key \in DOMAIN unprocessedTxs \ keys : unprocessedTxs'[key] = unprocessedTxs[key]
  BY <1>4 DEF Put
<1>6. \A key \in keys : key[1] = Slot[b]
  BY DEF TxKey
<1>7. \A key \in DOMAIN unprocessedTxs \cup DOMAIN processedTxs : \E c \in P : key[1] = Slot[c]
  BY DEF StoreInv, TxsStored
<1>8. keys \cap (DOMAIN unprocessedTxs \cup DOMAIN processedTxs) = {}
  BY <1>2, <1>6, <1>7
<1>9. TxsStored'
  BY <1>1, <1>3, <1>5, <1>6, <1>7 DEF TxsStored
<1>10. ASSUME OutputsFound PROVE TxsComplete'
  <2>1. ASSUME NEW i \in DOMAIN TxsOf[b], Touches(b, TxsOf[b][i])
        PROVE  /\ TxKey(b, i) \in DOMAIN unprocessedTxs'
               /\ unprocessedTxs'[TxKey(b, i)].hash = TxsOf[b][i]
    <3>1. TxKey(b, i) \in keys
      BY <1>10, <2>1, TouchesIsOfInterest
    <3>2. TxKey(b, i)[2] = i
      BY DEF TxKey
    <3> QED
      BY <1>4, <1>5, <3>1, <3>2
  <2>2. ASSUME NEW c \in P, NEW i \in DOMAIN TxsOf[c], Touches(c, TxsOf[c][i])
        PROVE  \/ TxKey(c, i) \in DOMAIN unprocessedTxs' /\ unprocessedTxs'[TxKey(c, i)].hash = TxsOf[c][i]
               \/ TxKey(c, i) \in DOMAIN processedTxs' /\ processedTxs'[TxKey(c, i)].hash = TxsOf[c][i]
    <3>1. TxIsStored(c, i)
      BY <1>10, <2>2 DEF StoreInv, NoTxLost, TxIsStored
    <3>2. TxKey(c, i) \notin keys
      BY <1>2, <1>6 DEF TxKey
    <3> QED
      BY <1>3, <1>5, <3>1, <3>2 DEF TxIsStored
  <2> HIDE DEF b
  <2> QED
    BY <1>1, <2>1, <2>2 DEF TxsComplete, TxIsStored, Touches
<1> QED
  BY <1>3, <1>5, <1>8, <1>9, <1>10 DEF StoreInv

-----------------------------------------------------------------------------
(* The data: the other steps *)

\* Only a confirmation and the end of a handler write to the database.
LEMMA WritesOfStep ==
  ASSUME [Next]_vars, ~ExecuteConfirm
  PROVE  /\ UNCHANGED <<savedBlockPoint, confirmedBlocks, txOutputs>>
         /\ \/ UNCHANGED <<unprocessedTxs, processedTxs>>
            \/ HandlerMarks
<1> USE DEF dbVars, memoryVars, netVars, appVars
<1>1. CASE Connect \/ IntersectNotFound \/ ResetFails \/ Disconnect
  BY <1>1 DEF Connect, IntersectNotFound, ResetFails, Disconnect, Reset
<1>2. CASE NodeNext
  BY <1>2 DEF NodeNext, NodeRollForward, NodeRollBackward, Enqueue
<1>3. CASE ExecuteBackward \/ ExecuteFatal \/ ExecuteForward \/ ExecuteFails
  BY <1>3 DEF ExecuteBackward, RollBackwardToUnconfirmed, RollBackwardToConfirmed,
              ExecuteFatal, RollBackwardFatal, ExecuteForward, RollForwardNotFull,
              ExecuteFails, RollForwardFails
<1>4. CASE HandlerReads \/ HandlerMarks \/ HandlerFails
  BY <1>4 DEF HandlerReads, HandlerMarks, HandlerFails, MarkConfirmedTxsProcessed
<1>5. CASE AddAddresses \/ Crash \/ UNCHANGED vars
  BY <1>5 DEF AddAddresses, AddNewAddressesOfInterest, Crash, vars
<1> QED
  BY <1>1, <1>2, <1>3, <1>4, <1>5 DEF Next, LoopNext

\* Addresses are only added, or start again from the configured ones; delivered
\* transactions stay so; and what a handler read is kept until it returns.
LEMMA MemoryOfStep ==
  ASSUME [Next]_vars, AddressesOfInterest \subseteq addressesOfInterest
  PROVE  /\ AddressesOfInterest \subseteq addressesOfInterest'
         /\ delivered \subseteq delivered'
         /\ readTxs' \in {readTxs, NotRead} \/ HandlerReads
<1> USE DEF dbVars, memoryVars, netVars, appVars
<1>1. CASE Connect \/ IntersectNotFound \/ ResetFails \/ Disconnect
  BY <1>1 DEF Connect, IntersectNotFound, ResetFails, Disconnect, Reset
<1>2. CASE NodeNext
  BY <1>2 DEF NodeNext, NodeRollForward, NodeRollBackward, Enqueue
<1>3. CASE ExecuteBackward \/ ExecuteFatal \/ ExecuteForward \/ ExecuteFails \/ ExecuteConfirm
  BY <1>3 DEF ExecuteBackward, RollBackwardToUnconfirmed, RollBackwardToConfirmed,
              ExecuteFatal, RollBackwardFatal, ExecuteForward, RollForwardNotFull,
              ExecuteFails, RollForwardFails, ExecuteConfirm, RollForwardConfirm
<1>4. CASE HandlerReads \/ HandlerMarks \/ HandlerFails
  BY <1>4 DEF HandlerReads, HandlerMarks, HandlerFails, HandlerReturns
<1>5. CASE AddAddresses \/ Crash \/ UNCHANGED vars
  BY <1>5 DEF AddAddresses, AddNewAddressesOfInterest, Crash, vars
<1> QED
  BY <1>1, <1>2, <1>3, <1>4, <1>5 DEF Next, LoopNext

\* The handler's transactions move from one bucket to the other.
LEMMA MarkedTxs ==
  ASSUME Inv, StoreInv, HandlerMarks
  PROVE  /\ DOMAIN unprocessedTxs' = {}
         /\ DOMAIN processedTxs' = DOMAIN unprocessedTxs \cup DOMAIN processedTxs
         /\ \A key \in DOMAIN unprocessedTxs : processedTxs'[key] = unprocessedTxs[key]
         /\ \A key \in DOMAIN processedTxs : processedTxs'[key] = processedTxs[key]
         /\ DOMAIN unprocessedTxs \subseteq delivered'
         /\ readTxs' = NotRead
<1>1. readTxs = [key \in DOMAIN unprocessedTxs |-> unprocessedTxs[key]]
  BY DEF HandlerMarks, StoreInv, TxsStored
<1>2. /\ unprocessedTxs' = Delete(unprocessedTxs, DOMAIN readTxs)
      /\ processedTxs' = Put(processedTxs, readTxs)
      /\ delivered' = delivered \cup DOMAIN readTxs
      /\ readTxs' = NotRead
  BY DEF HandlerMarks, MarkConfirmedTxsProcessed
<1>3. DOMAIN unprocessedTxs \cap DOMAIN processedTxs = {}
  BY DEF StoreInv
<1> QED
  BY <1>1, <1>2, <1>3 DEF Put, Delete

\* Steps that confirm nothing keep what the properties say of the outputs.
LEMMA OutputsFrame ==
  ASSUME StoreInv, [Next]_vars, ~ExecuteConfirm
  PROVE  /\ ConfirmedPath' = ConfirmedPath
         /\ StandsOnStart' /\ OutputsStored' /\ BlocksStored'
         /\ KeepAllTxOutputsInDB => UtxosExact'
         /\ OutputsFound => UtxosComplete'
         /\ InputsFound => StaleUtxosOnlyFromOwnBlock'
<1>1. UNCHANGED <<savedBlockPoint, confirmedBlocks, txOutputs>>
  BY WritesOfStep
<1>2. GetLatestPoint' = GetLatestPoint
  BY <1>1 DEF GetLatestPoint
<1>3. ConfirmedPath' = ConfirmedPath
  BY <1>2 DEF ConfirmedPath
<1>4. StandsOnStart'
  BY <1>2, MemoryOfStep DEF StandsOnStart, StoreInv, Ancestors, On
<1>5. OutputsStored' /\ BlocksStored'
  BY <1>1, <1>3 DEF StoreInv, OutputsStored, BlocksStored, Created, TxsInBlocks
<1>6. \A A : NotUsedOutputs(A)' = NotUsedOutputs(A)
  BY <1>1 DEF NotUsedOutputs
<1>7. /\ KeepAllTxOutputsInDB => UtxosExact'
      /\ OutputsFound => UtxosComplete'
      /\ InputsFound => StaleUtxosOnlyFromOwnBlock'
  BY <1>3, <1>6 DEF StoreInv, UtxosExact, UtxosComplete, StaleUtxosOnlyFromOwnBlock,
     Created, Spent, TxsInBlocks
<1> QED
  BY <1>3, <1>4, <1>5, <1>7

\* Steps that confirm nothing lose no stored transaction.
LEMMA TxsFrame ==
  ASSUME Inv, StoreInv, [Next]_vars, ~ExecuteConfirm
  PROVE  /\ TxsStored'
         /\ OutputsFound => TxsComplete'
         /\ DOMAIN unprocessedTxs' \cap DOMAIN processedTxs' = {}
         /\ DOMAIN processedTxs' \subseteq delivered'
<1>1. ConfirmedPath' = ConfirmedPath
  BY OutputsFrame
<1>2. delivered \subseteq delivered' /\ (readTxs' \in {readTxs, NotRead} \/ HandlerReads)
  BY MemoryOfStep DEF StoreInv, StandsOnStart
<1>3. /\ TxsStored
      /\ OutputsFound => TxsComplete
      /\ DOMAIN unprocessedTxs \cap DOMAIN processedTxs = {}
      /\ DOMAIN processedTxs \subseteq delivered
  BY DEF StoreInv, NoTxLost, TxsComplete, TxIsStored
<1>4. CASE UNCHANGED <<unprocessedTxs, processedTxs>>
  <2>1. readTxs' # NotRead => readTxs' = [key \in DOMAIN unprocessedTxs |-> unprocessedTxs[key]]
    BY <1>2, <1>3 DEF HandlerReads, GetUnprocessedConfirmedTxs, TxsStored
  <2>2. TxsStored'
    BY <1>1, <1>3, <1>4, <2>1 DEF TxsStored
  <2>3. OutputsFound => TxsComplete'
    BY <1>1, <1>3, <1>4 DEF TxsComplete, TxIsStored, Touches
  <2> QED
    BY <1>2, <1>3, <1>4, <2>2, <2>3
<1>5. CASE HandlerMarks
  <2>1. /\ DOMAIN unprocessedTxs' = {}
        /\ DOMAIN processedTxs' = DOMAIN unprocessedTxs \cup DOMAIN processedTxs
        /\ \A key \in DOMAIN unprocessedTxs : processedTxs'[key] = unprocessedTxs[key]
        /\ \A key \in DOMAIN processedTxs : processedTxs'[key] = processedTxs[key]
        /\ DOMAIN unprocessedTxs \subseteq delivered'
        /\ readTxs' = NotRead
    BY <1>5, MarkedTxs
  <2>2. TxsStored'
    BY <1>1, <1>3, <2>1 DEF TxsStored
  <2>3. ASSUME NEW b, NEW i, TxIsStored(b, i) PROVE TxIsStored(b, i)'
    BY <2>1, <2>3 DEF TxIsStored
  <2>4. OutputsFound => TxsComplete'
    BY <1>1, <1>3, <2>3 DEF TxsComplete, Touches
  <2> QED
    BY <1>2, <1>3, <2>1, <2>2, <2>4
<1> QED
  BY <1>4, <1>5, WritesOfStep

-----------------------------------------------------------------------------
(* The data: the invariant *)

\* A new database agrees with a chain without confirmed blocks.
LEMMA StoreInit == Init => StoreInv
<1> SUFFICES ASSUME Init PROVE StoreInv
  OBVIOUS
<1>1. GetLatestPoint = StartPoint /\ ConfirmedPath = {}
  BY DEF Init, InitDB, GetLatestPoint, ConfirmedPath
<1>2. StartPoint \in Ancestors(StartPoint)
  <2>1. CASE StartPoint = Genesis
    BY <2>1 DEF Ancestors
  <2>2. CASE StartPoint \in Block
    BY <2>2, OnChild DEF Ancestors
  <2> QED
    BY <2>1, <2>2, Config
<1>3. StandsOnStart
  BY <1>1, <1>2 DEF StandsOnStart, Init, NewBlockIndexer
<1>4. /\ DOMAIN confirmedBlocks = {} /\ DOMAIN txOutputs = {}
      /\ DOMAIN unprocessedTxs = {} /\ DOMAIN processedTxs = {}
      /\ readTxs = NotRead
  BY DEF Init, InitDB, EmptyBucket
<1>5. Created(ConfirmedPath) = {}
  BY <1>1 DEF Created, TxsInBlocks
<1>6. \A A : NotUsedOutputs(A) = {}
  BY <1>4 DEF NotUsedOutputs
<1>7. OutputsStored /\ TxsStored /\ BlocksStored
  BY <1>1, <1>4 DEF OutputsStored, TxsStored, BlocksStored
<1>8. UtxosExact /\ UtxosComplete /\ StaleUtxosOnlyFromOwnBlock
  BY <1>5, <1>6 DEF UtxosExact, UtxosComplete, StaleUtxosOnlyFromOwnBlock
<1>9. NoTxLost
  BY <1>1, <1>4 DEF NoTxLost
<1> QED
  BY <1>3, <1>4, <1>7, <1>8, <1>9 DEF StoreInv

\* Every step keeps database and confirmed chain in agreement.
LEMMA StoreStep == Inv /\ StoreInv /\ [Next]_vars => StoreInv'
<1> SUFFICES ASSUME Inv, StoreInv, [Next]_vars PROVE StoreInv'
  OBVIOUS
<1>1. CASE ExecuteConfirm
  <2>1. StandsOnStart'
    BY <1>1, ConfirmedPathStep DEF StoreInv
  <2>2. DOMAIN processedTxs' \subseteq delivered'
    BY <1>1, ConfirmedBlock DEF StoreInv
  <2> QED
    BY <1>1, <2>1, <2>2, OutputsConfirm, BlocksConfirm, TxsConfirm
    DEF StoreInv, NoTxLost, TxsComplete, TxIsStored
<1>2. CASE ~ExecuteConfirm
  BY <1>2, OutputsFrame, TxsFrame DEF StoreInv, NoTxLost, TxsComplete, TxIsStored
<1> QED
  BY <1>1, <1>2

-----------------------------------------------------------------------------
(* The data: the list of confirmed blocks *)

\* The bucket of blocks holds the slots of the confirmed chain, as many as it
\* is long, and the i-th newest is that of the i-th block from the end.
LEMMA KeyOfRank ==
  ASSUME Inv, StoreInv
  PROVE  LET path == PathTo[GetLatestPoint]
             count == Len(path) - Len(PathTo[StartPoint])
             keys == DOMAIN confirmedBlocks
             Newest(i) == CHOOSE k \in keys : Cardinality({l \in keys : l > k}) = i - 1
         IN  /\ Cardinality(keys) = count
             /\ \A i \in 1..count : /\ Newest(i) = Slot[path[Len(path) + 1 - i]]
                                    /\ path[Len(path) + 1 - i] \in ConfirmedPath
<1> DEFINE path == PathTo[GetLatestPoint]
           n == Len(path)
           m == Len(PathTo[StartPoint])
           keys == DOMAIN confirmedBlocks
           slot == [j \in 1..n |-> Slot[path[j]]]
           Rank(k) == Cardinality({l \in keys : l > k})
<1>1. GetLatestPoint \in Point /\ StartPoint \in Ancestors(GetLatestPoint)
  BY LatestPointType DEF Inv, StoreInv, StandsOnStart
<1>2. StartPoint \in Point
  BY <1>1, OnType DEF Ancestors
<1>3. n \in Nat /\ m \in Nat /\ m <= n /\ path \in Seq(Block) /\ DOMAIN path = 1..n
  BY <1>1, <1>2, PathType, PathPrefix
<1>4. ConfirmedPath = {path[j] : j \in (m + 1)..n}
  BY <1>1, OnAbove DEF ConfirmedPath
<1>5. keys = {slot[j] : j \in (m + 1)..n}
  <2>1. keys = {Slot[b] : b \in ConfirmedPath}
    BY DEF StoreInv, BlocksStored
  <2>2. \A j \in (m + 1)..n : slot[j] = Slot[path[j]]
    BY <1>3
  <2> HIDE DEF slot, keys, path, n, m
  <2> QED
    BY <1>4, <2>1, <2>2
<1>6. \A i, j \in (m + 1)..n : slot[i] = slot[j] => i = j
  <2>1. \A i, j \in 1..n : i < j => Slot[path[i]] < Slot[path[j]]
    BY <1>1, <1>3, PathOrder
  <2>2. \A i \in 1..n : slot[i] = Slot[path[i]] /\ Slot[path[i]] \in Nat
    BY <1>3, BlockAssumption
  <2>3. \A i \in (m + 1)..n : i \in 1..n
    BY <1>3
  <2> HIDE DEF slot, path, n, m
  <2> QED
    BY <1>3, <2>1, <2>2, <2>3
<1>7. Cardinality({slot[j] : j \in (m + 1)..n}) = n - m
  <2> HIDE DEF slot, n, m
  <2> QED
    BY <1>3, <1>6, DistinctValues
<1>8. \A j \in (m + 1)..n : Rank(slot[j]) = n - j
  <2> SUFFICES ASSUME NEW j \in (m + 1)..n PROVE Rank(slot[j]) = n - j
    OBVIOUS
  <2>1. j \in Nat /\ m < j /\ j <= n
    BY <1>3
  <2>2. Cardinality({l \in {slot[i] : i \in (m + 1)..n} : l > slot[j]}) = n - j
    BY <1>1, <1>3, <2>1, SlotsAbove
  <2> QED
    BY <1>5, <2>2
<1>9. ASSUME NEW i \in 1..(n - m)
      PROVE  (CHOOSE k \in keys : Rank(k) = i - 1) = slot[n + 1 - i]
  <2> HIDE DEF Rank, slot, keys, path, n, m
  <2>1. n + 1 - i \in (m + 1)..n /\ n - (n + 1 - i) = i - 1
    BY <1>3
  <2>2. Rank(slot[n + 1 - i]) = i - 1 /\ slot[n + 1 - i] \in keys
    BY <1>5, <1>8, <2>1
  <2>3. ASSUME NEW k \in keys, Rank(k) = i - 1 PROVE k = slot[n + 1 - i]
    <3>1. PICK j \in (m + 1)..n : k = slot[j]
      BY <1>5
    <3>2. n - j = i - 1
      BY <1>8, <2>3, <3>1
    <3> QED
      BY <1>3, <3>1, <3>2
  <2> QED
    BY <2>2, <2>3
<1>10. \A i \in 1..(n - m) : n + 1 - i \in (m + 1)..n /\ n + 1 - i \in 1..n
  BY <1>3
<1> QED
  BY <1>4, <1>5, <1>7, <1>9, <1>10

\* The bucket lists the confirmed chain, newest block first.
LEMMA BlocksListed == Inv /\ StoreInv => ConfirmedBlocksAreAChain
<1> SUFFICES ASSUME Inv, StoreInv PROVE ConfirmedBlocksAreAChain
  OBVIOUS
<1> DEFINE path == PathTo[GetLatestPoint]
           count == Len(path) - Len(PathTo[StartPoint])
<1>1. \A b \in ConfirmedPath : confirmedBlocks[Slot[b]].hash = b
  BY DEF StoreInv, BlocksStored
<1>2. LatestConfirmedBlocks = [i \in 1..count |-> path[Len(path) + 1 - i]]
  BY <1>1, KeyOfRank DEF LatestConfirmedBlocks
<1> QED
  BY <1>2 DEF ConfirmedBlocksAreAChain

-----------------------------------------------------------------------------
(* The data: the theorems *)

\* What the database holds is what the confirmed chain says, in every
\* configuration and through every fork, crash, restart and handler error.
THEOREM StoreCorrect == Spec => []StoreInv
  BY InvCorrect, StoreInit, StoreStep, PTL DEF Spec

\* With KeepAllTxOutputsInDB the outputs on offer are exactly those that the
\* confirmed chain created and did not spend: processConfirmedBlock and
\* AddAndRemoveTxOutputs under any forks, crashes and restarts.
THEOREM UtxosExactCorrect == KeepAllTxOutputsInDB => (Spec => []UtxosExact)
<1> SUFFICES ASSUME KeepAllTxOutputsInDB PROVE Spec => []UtxosExact
  OBVIOUS
<1>1. StoreInv => UtxosExact
  BY DEF StoreInv
<1> QED
  BY <1>1, StoreCorrect, PTL

\* No unspent output of a configured address is missing, if outputs are looked
\* at; a configuration that looks at inputs only never stores one.
THEOREM UtxosCompleteCorrect == OutputsFound => (Spec => []UtxosComplete)
<1> SUFFICES ASSUME OutputsFound PROVE Spec => []UtxosComplete
  OBVIOUS
<1>1. StoreInv => UtxosComplete
  BY DEF StoreInv
<1> QED
  BY <1>1, StoreCorrect, PTL

\* An output on offer that is spent was spent by its own block, if inputs are
\* looked at; a configuration that looks at outputs only never removes one.
THEOREM StaleUtxosCorrect == InputsFound => (Spec => []StaleUtxosOnlyFromOwnBlock)
<1> SUFFICES ASSUME InputsFound PROVE Spec => []StaleUtxosOnlyFromOwnBlock
  OBVIOUS
<1>1. StoreInv => StaleUtxosOnlyFromOwnBlock
  BY DEF StoreInv
<1> QED
  BY <1>1, StoreCorrect, PTL

\* Every transaction of interest of a confirmed block waits for the handler or
\* has been given to it, through every crash and handler error.
THEOREM NoTxLostCorrect == OutputsFound => (Spec => []NoTxLost)
<1> SUFFICES ASSUME OutputsFound PROVE Spec => []NoTxLost
  OBVIOUS
<1>1. StoreInv => NoTxLost
  BY DEF StoreInv
<1> QED
  BY <1>1, StoreCorrect, PTL

\* GetLatestConfirmedBlocks always lists the confirmed chain, newest block first.
THEOREM ConfirmedBlocksCorrect == Spec => []ConfirmedBlocksAreAChain
  BY InvCorrect, StoreCorrect, BlocksListed, PTL
=============================================================================
