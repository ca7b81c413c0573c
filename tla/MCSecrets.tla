----------------------------- MODULE MCSecrets -----------------------------
(* Secrets on a small instance: callers and values are interchangeable. *)
EXTENDS Secrets, TLC

Symmetry == Permutations(Caller) \cup Permutations(Value)
=============================================================================
