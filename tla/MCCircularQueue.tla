--------------------------- MODULE MCCircularQueue ---------------------------
(***************************************************************************)
(* Model checking of CircularQueue: every sequence of calls on a small     *)
(* buffer.  Items are interchangeable, so they form a symmetry set.        *)
(***************************************************************************)
EXTENDS CircularQueue, TLC

Symmetry == Permutations(Item)
=============================================================================
