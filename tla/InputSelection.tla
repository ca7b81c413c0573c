--------------------------- MODULE InputSelection ---------------------------
(***************************************************************************)
(* What a caller that has to fund a transaction may expect of the two      *)
(* selections of unspent outputs, GetUTXOsForAmounts of sendtx and         *)
(* GetUTXOsForAmount of wallet: one step that answers a request with       *)
(* inputs, or with one of two errors.                                      *)
(*                                                                         *)
(* An unspent output is its position in the list of the request.  A wanted *)
(* amount of 0 stands for a token without a condition.  Sums are unsigned  *)
(* words of the code, here modulo Word.                                    *)
(***************************************************************************)
EXTENDS Integers, FiniteSetsExt

CONSTANTS Token,      \* names of tokens
          Ada,        \* one of them, which every unspent output holds
          Amounts,    \* amounts of a token in an unspent output
          Wanted,     \* amounts of the conditions
          MaxUtxos,   \* bound on the length of the list
          MaxInputs,  \* values of maxInputs
          AtLeast,    \* values of tryAtLeastInputs
          Word        \* 2^64 in the code

ASSUME SelectionAssumption ==
  /\ Ada \in Token
  /\ MaxUtxos \in Nat
  /\ Word \in Nat \ {0}
  /\ MaxInputs \subseteq Nat \ {0}
  /\ AtLeast \subseteq Nat
  /\ Amounts \cup Wanted \subseteq 0 .. Word - 1

VARIABLES request, answer

Output == {o \in [Token -> Amounts] : o[Ada] > 0}

Lists == UNION {[1..n -> Output] : n \in 0..MaxUtxos}

Requests == [amount : Lists, conditions : [Token -> Wanted],
             maxInputs : MaxInputs, tryAtLeast : AtLeast]

Pending == [kind |-> "pending"]

-----------------------------------------------------------------------------

Utxos == DOMAIN request.amount

\* What the outputs of S hold of token t, as a number and as the code adds it.
Holds(S, t) == MapThenSumSet(LAMBDA u : request.amount[u][t], S)
SumOf(S) == [t \in Token |-> Holds(S, t) % Word]

Satisfies(sum) == \A t \in Token : sum[t] >= request.conditions[t]

\* The list itself does not exceed a word.
FitsWord == \A t \in Token : Holds(Utxos, t) < Word

\* A transaction with the inputs S would do.
Funds(S) ==
  /\ S # {}
  /\ Cardinality(S) <= request.maxInputs
  /\ \A t \in Token : Holds(S, t) >= request.conditions[t]

OneCondition ==
  \A s, t \in Token : request.conditions[s] > 0 /\ request.conditions[t] > 0 => s = t

-----------------------------------------------------------------------------

Init == request \in Requests /\ answer = Pending

\* Few inputs, as many as were asked for if there are so many, and they
\* hold what the conditions want.
Select(S) ==
  /\ Funds(S)
  /\ Cardinality(S) >= Min({request.tryAtLeast, request.maxInputs, Cardinality(Utxos)})
  /\ answer' = [kind |-> "selected", inputs |-> S, sum |-> SumOf(S)]

\* With a single condition an error means that nothing would have done.
Impossible ==
  FitsWord /\ OneCondition => \A S \in SUBSET Utxos : ~Funds(S)

LimitReached ==
  /\ Satisfies(SumOf(Utxos))
  /\ Impossible
  /\ answer' = [kind |-> "limitReached"]

CouldNotSelect ==
  /\ ~Satisfies(SumOf(Utxos))
  /\ Impossible
  /\ answer' = [kind |-> "couldNotSelect"]

Next ==
  /\ answer = Pending
  /\ (\E S \in SUBSET Utxos : Select(S)) \/ LimitReached \/ CouldNotSelect
  /\ UNCHANGED request

vars == <<request, answer>>

Spec == Init /\ [][Next]_vars
=============================================================================
