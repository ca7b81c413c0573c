--------------------------- MODULE ConfirmedChain ---------------------------
(***************************************************************************)
(* What the indexer promises: a chain of confirmed blocks that only grows, *)
(* followed by at most Depth blocks that it holds back.  A block is        *)
(* confirmed only when Depth blocks stand on top of it; held blocks may be *)
(* dropped at any time, the newest first, confirmed blocks never.          *)
(***************************************************************************)
EXTENDS Integers, Sequences

CONSTANTS Block, Parent, Genesis,
          Depth,           \* blocks on top of a confirmed block
          Start            \* the chain that is confirmed from the beginning

VARIABLES confirmed, held

Init == confirmed = Start /\ held = << >>

Chain == confirmed \o held

Fits(b) == Parent[b] = IF Chain = << >> THEN Genesis ELSE Chain[Len(Chain)]

Hold(b) ==
  /\ Fits(b)
  /\ Len(held) < Depth
  /\ held' = Append(held, b)
  /\ UNCHANGED confirmed

Confirm(b) ==
  /\ Fits(b)
  /\ Len(held) = Depth
  /\ confirmed' = Append(confirmed, held[1])
  /\ held' = Append(Tail(held), b)

Drop ==
  /\ \E n \in 0..Len(held) : held' = SubSeq(held, 1, n)
  /\ UNCHANGED confirmed

Next == Drop \/ \E b \in Block : Hold(b) \/ Confirm(b)

Spec == Init /\ [][Next]_<<confirmed, held>>
=============================================================================
