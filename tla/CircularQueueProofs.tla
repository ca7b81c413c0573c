------------------------ MODULE CircularQueueProofs ------------------------
(***************************************************************************)
(* CircularQueue implements BoundedQueue, for every capacity.              *)
(***************************************************************************)
EXTENDS CircularQueue, SequenceTheorems, TLAPS

\* (pos + i) % Size never leaves the buffer, and wraps at most once.
LEMMA CellValue ==
  ASSUME NEW p \in 0..(Size - 1), NEW i \in 0..Size
  PROVE  /\ (p + i) % Size \in Cells
         /\ (p + i) % Size = IF p + i < Size THEN p + i ELSE p + i - Size
<1>1. Size \in Nat /\ Size > 0 /\ p + i \in Nat /\ p + i < 2 * Size
  BY SizeAssumption
<1>2. CASE p + i < Size
  <2>1. (p + i) % Size = p + i
    BY <1>1, <1>2
  <2> QED
    BY <1>1, <1>2, <2>1 DEF Cells
<1>3. CASE p + i >= Size
  <2>1. (p + i) % Size = p + i - Size
    BY <1>1, <1>3
  <2> QED
    BY <1>1, <1>3, <2>1 DEF Cells
<1> QED
  BY <1>1, <1>2, <1>3

\* The cell of a live item is in the buffer.
LEMMA CellType ==
  ASSUME TypeOK, Size > 0, NEW i \in 0..Size
  PROVE  Cell(i) \in Cells /\ Cell(i) = IF pos + i < Size THEN pos + i ELSE pos + i - Size
  BY CellValue DEF TypeOK, Cell, Cells

\* The ring buffer that NewCircularQueue makes is well-typed.
LEMMA TypeInit == NewCircularQueue => TypeOK
<1> SUFFICES ASSUME NewCircularQueue PROVE TypeOK
  OBVIOUS
<1>1. items \in [Cells -> Item \cup {Zero}] /\ count \in 0..Size
      /\ pos \in IF Size = 0 THEN {0} ELSE Cells
  BY SizeAssumption DEF NewCircularQueue, Cells
<1>2. returned \in {"New", "Pop", "Peek"} \X (Item \cup {Zero})
  BY DEF NewCircularQueue
<1> QED
  BY <1>1, <1>2 DEF TypeOK

\* Every method keeps the types of the cells, the position and the count.
LEMMA TypeStep == TypeOK /\ [Next]_vars => TypeOK'
<1> SUFFICES ASSUME TypeOK, [Next]_vars PROVE TypeOK'
  OBVIOUS
<1> DEFINE Window(f, n, p) == /\ f \in [Cells -> Item \cup {Zero}]
                              /\ n \in 0..Size
                              /\ p \in IF Size = 0 THEN {0} ELSE Cells
           Result(r) == \/ r \in {"New", "Pop", "Peek"} \X (Item \cup {Zero})
                        \/ r \in {"Push"} \X BOOLEAN
                        \/ r \in {"SetCount", "ClearFrom", "Find"} \X Int
<1>0. Window(items, count, pos) /\ Result(returned)
  BY DEF TypeOK
<1> SUFFICES Window(items', count', pos') /\ Result(returned')
  BY DEF TypeOK
<1>1. ASSUME NEW item \in Item, Push(item) PROVE Window(items', count', pos') /\ Result(returned')
  <2>1. CASE IsFull
    <3>1. UNCHANGED <<items, count, pos>> /\ returned' = <<"Push", FALSE>>
      BY <1>1, <2>1 DEF Push
    <3>2. Result(returned')
      BY <3>1
    <3> QED
      BY <1>0, <3>1, <3>2
  <2>2. CASE ~IsFull
    <3>1. Size > 0 /\ count + 1 \in 0..Size /\ count \in 0..Size
      BY <1>0, <2>2, SizeAssumption DEF IsFull
    <3>2. Cell(count) \in Cells
      BY <3>1, CellType
    <3>3. items' = [items EXCEPT ![Cell(count)] = item] /\ count' = count + 1 /\ pos' = pos
          /\ returned' = <<"Push", TRUE>>
      BY <1>1, <2>2 DEF Push
    <3>4. items' \in [Cells -> Item \cup {Zero}]
      BY <1>0, <3>2, <3>3
    <3>5. Result(returned')
      BY <3>3
    <3> QED
      BY <1>0, <3>1, <3>3, <3>4, <3>5
  <2> QED
    BY <2>1, <2>2
<1>2. CASE Pop
  <2>1. CASE count = 0
    BY <1>0, <1>2, <2>1 DEF Pop
  <2>2. CASE count # 0
    <3>1. Size > 0 /\ count - 1 \in 0..Size /\ 1 \in 0..Size /\ pos \in Cells
      BY <1>0, <2>2, SizeAssumption DEF TypeOK
    <3>2. Cell(1) \in Cells
      BY <3>1, CellType
    <3>3. items' = [items EXCEPT ![pos] = Zero] /\ count' = count - 1 /\ pos' = Cell(1)
          /\ returned' = <<"Pop", items[pos]>>
      BY <1>2, <2>2 DEF Pop
    <3>4. items' \in [Cells -> Item \cup {Zero}] /\ items[pos] \in Item \cup {Zero}
      BY <1>0, <3>1, <3>3
    <3>5. Result(returned')
      BY <3>3, <3>4
    <3> QED
      BY <1>0, <3>1, <3>2, <3>3, <3>4, <3>5
  <2> QED
    BY <2>1, <2>2
<1>3. CASE Peek
  <2>1. count # 0 => pos \in Cells
    BY <1>0, SizeAssumption
  <2> QED
    BY <1>0, <1>3, <2>1 DEF Peek
<1>4. ASSUME NEW cnt \in 0..(Size + 1), SetCount(cnt) PROVE Window(items', count', pos') /\ Result(returned')
  BY <1>0, <1>4, SizeAssumption DEF SetCount
<1>5. ASSUME NEW cnt \in 0..(Size + 1), ClearFrom(cnt) PROVE Window(items', count', pos') /\ Result(returned')
  BY <1>0, <1>5, SizeAssumption DEF ClearFrom
<1>6. ASSUME NEW item \in Item, Find(item) PROVE Window(items', count', pos') /\ Result(returned')
  BY <1>0, <1>6, SizeAssumption DEF Find, Found
<1>7. CASE UNCHANGED vars
  BY <1>0, <1>7 DEF vars
<1> QED
  BY <1>1, <1>2, <1>3, <1>4, <1>5, <1>6, <1>7 DEF Next

\* Every call leaves the ring buffer well formed: TypeOK of CircularQueue.
THEOREM TypeCorrect == Spec => []TypeOK
  BY TypeInit, TypeStep, PTL DEF Spec

-----------------------------------------------------------------------------
(* The refinement *)

Value == Item \cup {Zero}

\* Different live items have different cells.
LEMMA CellsDiffer ==
  ASSUME TypeOK, NEW i \in 0..(Size - 1), NEW j \in 0..(Size - 1), i # j
  PROVE  Cell(i) # Cell(j)
<1>1. Size > 0 /\ Size \in Nat /\ i \in 0..Size /\ j \in 0..Size /\ pos \in 0..(Size - 1)
  BY SizeAssumption DEF TypeOK, Cells
<1>2. /\ Cell(i) = IF pos + i < Size THEN pos + i ELSE pos + i - Size
      /\ Cell(j) = IF pos + j < Size THEN pos + j ELSE pos + j - Size
  BY <1>1, CellType
<1> QED
  BY <1>1, <1>2

\* ToList returns as many items as the count says, those of the live cells in order.
LEMMA ListType ==
  ASSUME TypeOK
  PROVE  /\ ToList \in Seq(Value) /\ Len(ToList) = count
         /\ \A i \in 1..count : ToList[i] = items[Cell(i - 1)]
<1>1. count \in Nat /\ count <= Size /\ Size \in Nat
  BY SizeAssumption DEF TypeOK
<1>2. ASSUME NEW i \in 1..count PROVE items[Cell(i - 1)] \in Value
  <2>1. Size > 0 /\ i - 1 \in 0..Size
    BY <1>1
  <2>2. Cell(i - 1) \in Cells
    BY <2>1, CellType
  <2> QED
    BY <2>2 DEF TypeOK, Value
<1>3. ToList \in [1..count -> Value]
  BY <1>2 DEF ToList
<1> QED
  BY <1>1, <1>3, LenProperties DEF ToList

\* The same after a step.
LEMMA ListTypeNext ==
  ASSUME TypeOK'
  PROVE  /\ ToList' \in Seq(Value) /\ Len(ToList') = count'
         /\ \A i \in 1..count' : ToList'[i] = items'[(pos' + (i - 1)) % Size]
<1>1. count' \in Nat /\ count' <= Size /\ Size \in Nat
  BY SizeAssumption DEF TypeOK
<1>2. ASSUME NEW i \in 1..count' PROVE items'[(pos' + (i - 1)) % Size] \in Value
  <2>1. Size > 0 /\ i - 1 \in 0..Size
    BY <1>1
  <2>2. pos' \in 0..(Size - 1)
    BY <2>1 DEF TypeOK, Cells
  <2>3. (pos' + (i - 1)) % Size \in Cells
    BY <2>1, <2>2, CellValue
  <2> QED
    BY <2>3 DEF TypeOK, Value
<1>3. ToList' \in [1..count' -> Value]
  BY <1>2 DEF ToList, Cell
<1> QED
  BY <1>1, <1>3, LenProperties DEF ToList, Cell

\* Push appends to the queue, or reports that it is full.
LEMMA PushRefines ==
  ASSUME TypeOK, TypeOK', NEW item \in Item, Push(item)
  PROVE  Queue!Push(item)
<1>1. CASE IsFull
  BY <1>1, ListType DEF Push, Queue!Push, IsFull, ToList, Cell
<1>2. CASE ~IsFull
  <2>1. count \in 0..(Size - 1) /\ Size > 0 /\ Size \in Nat
        /\ items' = [items EXCEPT ![Cell(count)] = item] /\ count' = count + 1 /\ pos' = pos
        /\ returned' = <<"Push", TRUE>> /\ items \in [Cells -> Value]
    <3>1. items \in [Cells -> Value] /\ count \in 0..Size /\ count # Size
      BY <1>2 DEF IsFull, TypeOK, Value
    <3>2. items' = [items EXCEPT ![Cell(count)] = item] /\ count' = count + 1 /\ pos' = pos
          /\ returned' = <<"Push", TRUE>>
      BY <1>2 DEF Push
    <3>3. count \in 0..(Size - 1) /\ Size > 0 /\ Size \in Nat
      BY <3>1, SizeAssumption
    <3> QED
      BY <3>1, <3>2, <3>3
  <2>2. Cell(count) \in Cells
    BY <2>1, CellType
  <2>3. Append(ToList, item) \in Seq(Value) /\ Len(Append(ToList, item)) = count + 1
        /\ \A i \in 1..count : Append(ToList, item)[i] = ToList[i]
        /\ Append(ToList, item)[count + 1] = item
    BY ListType, <2>1 DEF Value
  <2>4. ASSUME NEW i \in 1..(count + 1) PROVE ToList'[i] = Append(ToList, item)[i]
    <3>1. ToList'[i] = items'[Cell(i - 1)]
      BY <2>1, ListTypeNext DEF Cell
    <3>2. CASE i = count + 1
      <4>1. i - 1 = count
        BY <2>1, <3>2
      <4> QED
        BY <2>1, <2>2, <2>3, <3>1, <3>2, <4>1
    <3>3. CASE i # count + 1
      <4>1. i \in 1..count /\ i - 1 \in 0..(Size - 1) /\ i - 1 # count /\ i - 1 \in 0..Size
        BY <2>1, <3>3
      <4>2. Cell(i - 1) # Cell(count) /\ Cell(i - 1) \in Cells
        BY <2>1, <4>1, CellsDiffer, CellType
      <4> QED
        BY <2>1, <2>3, <3>1, <4>1, <4>2, ListType
    <3> QED
      BY <3>2, <3>3
  <2>5. ToList' = Append(ToList, item)
    BY <2>1, <2>3, <2>4, ListTypeNext, SeqEqual
  <2> QED
    BY <2>1, <2>5, ListType DEF Queue!Push
<1> QED
  BY <1>1, <1>2

\* Pop takes the head of the queue, or reports that it is empty.
LEMMA PopRefines ==
  ASSUME TypeOK, TypeOK', Pop
  PROVE  Queue!Pop
<1>1. CASE count = 0
  <2>1. ToList = << >> /\ ToList' = ToList
    BY <1>1, ListType DEF Pop, ToList, Cell
  <2> QED
    BY <1>1, <2>1 DEF Pop, Queue!Pop
<1>2. CASE count # 0
  <2>1. count \in 1..Size /\ Size > 0 /\ Size \in Nat /\ pos \in 0..(Size - 1)
        /\ items' = [items EXCEPT ![pos] = Zero] /\ count' = count - 1 /\ pos' = Cell(1)
        /\ returned' = <<"Pop", items[pos]>> /\ items \in [Cells -> Value]
    BY <1>2, SizeAssumption DEF Pop, TypeOK, Value, Cells
  <2>2. Cell(0) = pos /\ Cell(0) \in Cells
    BY <2>1, CellType
  <2>3. ToList # << >> /\ ToList[1] = items[pos]
    BY <2>1, <2>2, ListType
  <2>4. Tail(ToList) \in Seq(Value) /\ Len(Tail(ToList)) = count - 1
        /\ \A i \in 1..(count - 1) : Tail(ToList)[i] = ToList[i + 1]
    BY <2>1, <2>3, ListType
  <2>5. ASSUME NEW i \in 1..(count - 1) PROVE ToList'[i] = Tail(ToList)[i]
    <3>1. i \in 0..(Size - 1) /\ i # 0 /\ i \in 0..Size /\ i + 1 \in 1..count /\ (i + 1) - 1 = i
          /\ i - 1 \in 0..Size /\ 1 \in 0..Size /\ 0 \in 0..(Size - 1)
      BY <2>1
    <3>2. Cell(i) = IF pos + i < Size THEN pos + i ELSE pos + i - Size
      BY <2>1, <3>1, CellType
    <3>3. Cell(1) = (IF pos + 1 < Size THEN pos + 1 ELSE pos + 1 - Size) /\ Cell(1) \in 0..(Size - 1)
      BY <2>1, <3>1, CellType DEF Cells
    <3>4. (Cell(1) + (i - 1)) % Size =
            IF Cell(1) + (i - 1) < Size THEN Cell(1) + (i - 1) ELSE Cell(1) + (i - 1) - Size
      BY <3>1, <3>3, CellValue
    <3>5. (Cell(1) + (i - 1)) % Size = Cell(i)
      BY <2>1, <3>1, <3>2, <3>3, <3>4
    <3>6. ToList'[i] = items'[Cell(i)]
      BY <2>1, <3>5, ListTypeNext
    <3>7. Cell(i) # pos /\ Cell(i) \in Cells
      BY <2>1, <2>2, <3>1, CellsDiffer, CellType
    <3>8. ToList'[i] = items[Cell(i)]
      BY <2>1, <3>6, <3>7
    <3> QED
      BY <2>4, <3>1, <3>8, ListType
  <2>6. ToList' = Tail(ToList)
    BY <2>1, <2>4, <2>5, ListTypeNext, SeqEqual
  <2> QED
    BY <2>1, <2>3, <2>6 DEF Queue!Pop
<1> QED
  BY <1>1, <1>2

\* A call that writes nothing leaves the list as it is.
LEMMA ListFrame == UNCHANGED <<items, count, pos>> => ToList' = ToList
  BY DEF ToList, Cell

\* Peek returns the head of the queue and changes nothing.
LEMMA PeekRefines ==
  ASSUME TypeOK, TypeOK', Peek
  PROVE  Queue!Peek
<1>1. ToList' = ToList
  BY ListFrame DEF Peek
<1>2. CASE count = 0
  <2>1. ToList = << >>
    BY <1>2, ListType
  <2> QED
    BY <1>1, <1>2, <2>1 DEF Peek, Queue!Peek
<1>3. CASE count # 0
  <2>1. Size > 0 /\ 0 \in 0..Size /\ 1 \in 1..count /\ pos \in 0..(Size - 1)
    BY <1>3, SizeAssumption DEF TypeOK, Cells
  <2>2. Cell(0) = pos
    <3>1. Cell(0) = IF pos + 0 < Size THEN pos + 0 ELSE pos + 0 - Size
      BY <2>1, CellType
    <3> QED
      BY <2>1, <3>1, SizeAssumption
  <2>3. ToList # << >> /\ ToList[1] = items[pos]
    <3>1. ToList # << >>
      BY <1>3, ListType
    <3>2. ToList[1] = items[Cell(1 - 1)] /\ 1 - 1 = 0
      BY <2>1, ListType
    <3> QED
      BY <2>2, <3>1, <3>2
  <2> QED
    BY <1>1, <1>3, <2>3 DEF Peek, Queue!Peek
<1> QED
  BY <1>2, <1>3

\* SetCount changes the length of the queue and none of the items that stay.
LEMMA SetCountRefines ==
  ASSUME TypeOK, TypeOK', NEW cnt \in 0..(Size + 1), SetCount(cnt)
  PROVE  Queue!SetCount(cnt)
<1>1. count' = (IF cnt < Size THEN cnt ELSE Size) /\ pos' = pos /\ items' = items
      /\ returned' = <<"SetCount", count'>> /\ count \in Nat /\ count' \in Nat
  BY SizeAssumption DEF SetCount, TypeOK
<1>2. Len(ToList) = count /\ Len(ToList') = count'
  BY ListType, ListTypeNext
<1>3. ASSUME NEW i \in 1..count, i <= count' PROVE ToList[i] = ToList'[i]
  <2>1. ToList[i] = items[Cell(i - 1)]
    BY ListType
  <2>2. i \in 1..count'
    BY <1>1, <1>3
  <2>3. ToList'[i] = items'[(pos' + (i - 1)) % Size]
    BY <2>2, ListTypeNext
  <2> QED
    BY <1>1, <2>1, <2>3 DEF Cell
<1>4. \A i \in 1..count' : i <= count => ToList[i] = ToList'[i]
  BY <1>1, <1>3
<1>5. Queue!IsPrefixOf(ToList', ToList) \/ Queue!IsPrefixOf(ToList, ToList')
  BY <1>1, <1>2, <1>3, <1>4 DEF Queue!IsPrefixOf
<1> QED
  BY <1>1, <1>2, <1>5 DEF Queue!SetCount

\* ClearFrom keeps the items before the index.
LEMMA ClearFromRefines ==
  ASSUME TypeOK, TypeOK', NEW from \in 0..(Size + 1), ClearFrom(from)
  PROVE  Queue!ClearFrom(from)
<1> DEFINE n == IF from < count THEN from ELSE count
<1>1. count' = n /\ pos' = pos /\ n \in 0..count /\ count \in 0..Size /\ Size \in Nat
      /\ returned' = <<"ClearFrom", n>>
      /\ items' = [c \in Cells |-> IF c \in {Cell(i) : i \in from..(count - 1)} THEN Zero ELSE items[c]]
  BY SizeAssumption DEF ClearFrom, TypeOK
<1>2. SubSeq(ToList, 1, n) \in Seq(Value) /\ Len(SubSeq(ToList, 1, n)) = n
      /\ \A i \in 1..n : SubSeq(ToList, 1, n)[i] = ToList[i]
  BY <1>1, ListType
<1>3. ASSUME NEW i \in 1..n PROVE ToList'[i] = SubSeq(ToList, 1, n)[i]
  <2>1. i - 1 \in 0..(Size - 1) /\ i - 1 \in 0..Size /\ Size > 0 /\ i \in 1..count /\ i - 1 < from
    BY <1>1
  <2>2. Cell(i - 1) \in Cells
    BY <2>1, CellType
  <2>3. \A j \in from..(count - 1) : Cell(j) # Cell(i - 1)
    <3> SUFFICES ASSUME NEW j \in from..(count - 1) PROVE Cell(j) # Cell(i - 1)
      OBVIOUS
    <3>1. j \in 0..(Size - 1) /\ j # i - 1
      BY <1>1, <2>1
    <3> QED
      BY <2>1, <3>1, CellsDiffer
  <2>4. ToList'[i] = items'[Cell(i - 1)]
    BY <1>1, ListTypeNext DEF Cell
  <2>5. items'[Cell(i - 1)] = items[Cell(i - 1)]
    BY <1>1, <2>2, <2>3
  <2> QED
    BY <1>2, <2>1, <2>4, <2>5, ListType
<1>4. ToList' = SubSeq(ToList, 1, n)
  BY <1>1, <1>2, <1>3, ListTypeNext, SeqEqual
<1>5. Len(ToList) = count /\ Len(ToList') = n
  BY <1>1, ListType, ListTypeNext
<1> QED
  BY <1>1, <1>4, <1>5 DEF Queue!ClearFrom

\* Find returns the index of the first item that satisfies the predicate.
LEMMA FindRefines ==
  ASSUME TypeOK, TypeOK', NEW item \in Item, Find(item)
  PROVE  Queue!Find(item)
<1>1. ToList' = ToList
  BY ListFrame DEF Find
<1>2. /\ Len(ToList) = count /\ count \in Nat
      /\ \A i \in 1..count : ToList[i] = items[Cell(i - 1)]
  BY ListType, SizeAssumption DEF TypeOK
<1>3. CASE Found(item) = {} /\ returned' = <<"Find", -1>>
  <2>1. \A i \in 1..count : ToList[i] # item
    <3> SUFFICES ASSUME NEW i \in 1..count, ToList[i] = item PROVE FALSE
      OBVIOUS
    <3>1. i - 1 \in 0..(count - 1) /\ items[Cell(i - 1)] = item
      BY <1>2
    <3> QED
      BY <1>3, <3>1 DEF Found
  <2> QED
    BY <1>1, <1>2, <1>3, <2>1 DEF Queue!Find
<1>4. CASE \E i \in Found(item) : (\A j \in Found(item) : i <= j) /\ returned' = <<"Find", i>>
  <2>1. PICK i \in Found(item) : (\A j \in Found(item) : i <= j) /\ returned' = <<"Find", i>>
    BY <1>4
  <2>2. i \in 0..(count - 1) /\ items[Cell(i)] = item
    BY <2>1 DEF Found
  <2>3. i + 1 \in 1..count /\ (i + 1) - 1 = i /\ ToList[i + 1] = item
    BY <1>2, <2>2
  <2>4. \A j \in 1..i : ToList[j] # item
    <3> SUFFICES ASSUME NEW j \in 1..i, ToList[j] = item PROVE FALSE
      OBVIOUS
    <3>1. j \in 1..count /\ j - 1 \in 0..(count - 1) /\ j - 1 < i
      BY <1>2, <2>2
    <3>2. items[Cell(j - 1)] = item
      BY <1>2, <3>1
    <3> QED
      BY <2>1, <2>2, <3>1, <3>2 DEF Found
  <2>5. \E k \in 1..Len(ToList) :
          /\ ToList[k] = item
          /\ \A j \in 1..(k - 1) : ToList[j] # item
          /\ returned' = <<"Find", k - 1>>
    <3>1. i + 1 \in 1..Len(ToList)
      BY <1>2, <2>3
    <3>2. \A j \in 1..((i + 1) - 1) : ToList[j] # item
      BY <2>3, <2>4
    <3>3. returned' = <<"Find", (i + 1) - 1>>
      BY <2>1, <2>3
    <3> QED
      BY <2>3, <3>1, <3>2, <3>3
  <2> QED
    BY <1>1, <2>5 DEF Queue!Find
<1> QED
  BY <1>3, <1>4 DEF Find

\* The ring buffer implements the bounded queue, whatever its capacity and the
\* sequence of calls: ImplementsBoundedQueue of CircularQueue.
THEOREM RefinementCorrect == Spec => ImplementsBoundedQueue
<1>1. NewCircularQueue => Queue!Init
  <2> SUFFICES ASSUME NewCircularQueue PROVE Queue!Init
    OBVIOUS
  <2>1. ToList = << >>
    BY TypeInit, ListType DEF NewCircularQueue
  <2> QED
    BY <2>1 DEF NewCircularQueue, Queue!Init
<1>2. TypeOK /\ TypeOK' /\ [Next]_vars => [Queue!Next]_<<ToList, returned>>
  <2> SUFFICES ASSUME TypeOK, TypeOK', [Next]_vars
               PROVE  Queue!Next \/ UNCHANGED <<ToList, returned>>
    OBVIOUS
  <2>1. CASE Next
    BY <2>1, PushRefines, PopRefines, PeekRefines, SetCountRefines, ClearFromRefines, FindRefines
       DEF Next, Queue!Next
  <2>2. CASE UNCHANGED vars
    BY <2>2, ListFrame DEF vars
  <2> QED
    BY <2>1, <2>2
<1> QED
  BY <1>1, <1>2, TypeCorrect, PTL DEF Spec, ImplementsBoundedQueue, Queue!Spec
=============================================================================
