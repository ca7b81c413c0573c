---------------------------- MODULE BoundedQueue ----------------------------
(***************************************************************************)
(* What common.CircularQueue promises to its callers: a first-in first-out *)
(* queue of at most Size items.  `returned` is the result the caller gets, *)
(* tagged with the method that returned it.                                *)
(***************************************************************************)
EXTENDS Integers, Sequences

CONSTANTS Item,   \* values a caller can store
          Zero,   \* the zero value of the item type
          Size    \* capacity

VARIABLES queue, returned

Init == queue = << >> /\ returned = <<"New", Zero>>

IsPrefixOf(s, t) == Len(s) <= Len(t) /\ \A i \in 1..Len(s) : s[i] = t[i]

Push(item) ==
  \/ /\ Len(queue) < Size
     /\ queue' = Append(queue, item)
     /\ returned' = <<"Push", TRUE>>
  \/ /\ Len(queue) = Size
     /\ returned' = <<"Push", FALSE>>
     /\ UNCHANGED queue

Pop ==
  \/ /\ queue # << >>
     /\ returned' = <<"Pop", queue[1]>>
     /\ queue' = Tail(queue)
  \/ /\ queue = << >>
     /\ returned' = <<"Pop", Zero>>
     /\ UNCHANGED queue

Peek ==
  /\ returned' = <<"Peek", IF queue = << >> THEN Zero ELSE queue[1]>>
  /\ UNCHANGED queue

\* A truncation keeps the oldest items.  An extension keeps all of them and
\* adds items the caller must not rely on.
SetCount(cnt) ==
  /\ Len(queue') = IF cnt < Size THEN cnt ELSE Size
  /\ IsPrefixOf(queue', queue) \/ IsPrefixOf(queue, queue')
  /\ returned' = <<"SetCount", Len(queue')>>

ClearFrom(from) ==
  /\ queue' = SubSeq(queue, 1, IF from < Len(queue) THEN from ELSE Len(queue))
  /\ returned' = <<"ClearFrom", Len(queue')>>

\* The index the code returns counts from 0; -1 means not found.
Find(item) ==
  /\ \/ /\ \A i \in 1..Len(queue) : queue[i] # item
        /\ returned' = <<"Find", -1>>
     \/ \E i \in 1..Len(queue) :
          /\ queue[i] = item
          /\ \A j \in 1..(i - 1) : queue[j] # item
          /\ returned' = <<"Find", i - 1>>
  /\ UNCHANGED queue

Next ==
  \/ \E item \in Item : Push(item) \/ Find(item)
  \/ Pop
  \/ Peek
  \/ \E cnt \in 0..(Size + 1) : SetCount(cnt) \/ ClearFrom(cnt)

Spec == Init /\ [][Next]_<<queue, returned>>
=============================================================================
