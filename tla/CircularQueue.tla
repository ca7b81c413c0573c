---------------------------- MODULE CircularQueue ----------------------------
(***************************************************************************)
(* The ring buffer of common/circular_queue.go.  Cells are numbered from   *)
(* 0 as in the code; a cell outside the `count` cells that start at `pos`  *)
(* keeps whatever SetCount left in it.                                     *)
(***************************************************************************)
EXTENDS Integers, Sequences

CONSTANTS Item,   \* values a caller can store
          Zero,   \* the zero value of the item type
          Size    \* capacity given to NewCircularQueue

ASSUME SizeAssumption == Size \in Nat
ASSUME ZeroAssumption == Zero \notin Item

VARIABLES items, count, pos, returned

vars == <<items, count, pos, returned>>

Cells == 0..(Size - 1)

NewCircularQueue ==
  /\ items = [c \in Cells |-> Zero]
  /\ count = 0
  /\ pos = 0
  /\ returned = <<"New", Zero>>

\* The cell of the i-th live item, counting from 0.
Cell(i) == (pos + i) % Size

IsFull == count = Size

\* Mutant of Push: the cell is counted from the start of the buffer, not from pos.
PushIgnoringPos(item) ==
  \/ /\ IsFull
     /\ returned' = <<"Push", FALSE>>
     /\ UNCHANGED <<items, count, pos>>
  \/ /\ ~IsFull
     /\ items' = [items EXCEPT ![count % Size] = item]
     /\ count' = count + 1
     /\ returned' = <<"Push", TRUE>>
     /\ UNCHANGED pos

Push(item) ==
  \/ /\ IsFull
     /\ returned' = <<"Push", FALSE>>
     /\ UNCHANGED <<items, count, pos>>
  \/ /\ ~IsFull
     /\ items' = [items EXCEPT ![Cell(count)] = item]
     /\ count' = count + 1
     /\ returned' = <<"Push", TRUE>>
     /\ UNCHANGED pos

Pop ==
  \/ /\ count = 0
     /\ returned' = <<"Pop", Zero>>
     /\ UNCHANGED <<items, count, pos>>
  \/ /\ count # 0
     /\ returned' = <<"Pop", items[pos]>>
     /\ items' = [items EXCEPT ![pos] = Zero]
     /\ pos' = Cell(1)
     /\ count' = count - 1

Peek ==
  /\ returned' = <<"Peek", IF count = 0 THEN Zero ELSE items[pos]>>
  /\ UNCHANGED <<items, count, pos>>

\* No cell is cleared: the truncated items stay behind in the buffer.
SetCount(cnt) ==
  /\ count' = IF cnt < Size THEN cnt ELSE Size
  /\ returned' = <<"SetCount", count'>>
  /\ UNCHANGED <<items, pos>>

ClearFrom(from) ==
  LET cleared == {Cell(i) : i \in from..(count - 1)}
  IN  /\ items' = [c \in Cells |-> IF c \in cleared THEN Zero ELSE items[c]]
      /\ count' = IF from < count THEN from ELSE count
      /\ returned' = <<"ClearFrom", count'>>
      /\ UNCHANGED pos

Found(item) == {i \in 0..(count - 1) : items[Cell(i)] = item}

Find(item) ==
  /\ \/ Found(item) = {} /\ returned' = <<"Find", -1>>
     \/ \E i \in Found(item) :
          /\ \A j \in Found(item) : i <= j
          /\ returned' = <<"Find", i>>
  /\ UNCHANGED <<items, count, pos>>

ToList == [i \in 1..count |-> items[Cell(i - 1)]]

Next ==
  \/ \E item \in Item : Push(item) \/ Find(item)
  \/ Pop
  \/ Peek
  \/ \E cnt \in 0..(Size + 1) : SetCount(cnt) \/ ClearFrom(cnt)

Spec == NewCircularQueue /\ [][Next]_vars

-----------------------------------------------------------------------------

\* The buffer always has its Size cells, and the window of live cells lies
\* inside it (items, count, pos of CircularQueue).
TypeOK ==
  /\ items \in [Cells -> Item \cup {Zero}]
  /\ count \in 0..Size
  /\ pos \in IF Size = 0 THEN {0} ELSE Cells
  /\ \/ returned \in {"New", "Pop", "Peek"} \X (Item \cup {Zero})
     \/ returned \in {"Push"} \X BOOLEAN
     \/ returned \in {"SetCount", "ClearFrom", "Find"} \X Int

Queue == INSTANCE BoundedQueue WITH queue <- ToList

\* The ring buffer behaves as a first-in first-out queue of capacity Size: no
\* wrap-around of pos, no truncation by SetCount and no cell left uncleared
\* ever reorders, loses or resurrects an item that the caller can see.
ImplementsBoundedQueue == Queue!Spec
=============================================================================
