---------------------------- MODULE UtxoSelection ----------------------------
(***************************************************************************)
(* GetUTXOsForAmounts of sendtx/utxo_helper.go.  One step per iteration of *)
(* its loop: the first choosenCount outputs of the list are the chosen     *)
(* ones, and the list is reordered in place.                               *)
(***************************************************************************)
EXTENDS Sequences, InputSelection

VARIABLES utxos,           \* the list, as positions of the caller's list
          i,               \* outputs the loop has visited
          choosenCount,
          currentSum,
          currentSumTotal

allVars == <<vars, utxos, i, choosenCount, currentSum, currentSumTotal>>

Start ==
  /\ Init
  /\ utxos = [u \in Utxos |-> u]
  /\ i = 0
  /\ choosenCount = 0
  /\ currentSum = [t \in Token |-> 0]
  /\ currentSumTotal = [t \in Token |-> 0]

Plus(sum, u) == [t \in Token |-> (sum[t] + request.amount[u][t]) % Word]

Minus(sum, u) == [t \in Token |-> (sum[t] - request.amount[u][t]) % Word]

Swap(list, m, n) == [list EXCEPT ![m] = list[n], ![n] = list[m]]

Chosen(list, n) == {list[k] : k \in 1..n}

-----------------------------------------------------------------------------
(* An iteration: the output it visits joins the chosen ones *)

TakenCount == choosenCount + 1
Taken == Swap(utxos, TakenCount, i + 1)
TakenSum == Plus(currentSum, utxos[i + 1])

Visit ==
  /\ answer = Pending
  /\ i < Len(utxos)
  /\ i' = i + 1
  /\ currentSumTotal' = Plus(currentSumTotal, utxos[i + 1])
  /\ UNCHANGED request

\* Mutant of FillCount: maxInputs does not limit what is added.
FillCountNoLimit(n) == Max({0, Min({Len(utxos) - n, request.tryAtLeast - n})})

\* How many more outputs are taken to reach tryAtLeastInputs.
FillCount(n) ==
  Max({0, Min({Len(utxos) - n, request.tryAtLeast - n, request.maxInputs - n})})

PrepareTxInputs(list, n, sum) ==
  LET cnt == FillCount(n)
      filled == {list[k] : k \in n + 1 .. n + cnt}
  IN /\ currentSum' = [t \in Token |-> (sum[t] + Holds(filled, t)) % Word]
     /\ answer' = [kind |-> "selected", inputs |-> Chosen(list, n + cnt), sum |-> currentSum']

Satisfied ==
  /\ Visit
  /\ Satisfies(TakenSum)
  /\ utxos' = Taken
  /\ choosenCount' = TakenCount
  /\ PrepareTxInputs(Taken, TakenCount, TakenSum)

Keep ==
  /\ Visit
  /\ ~Satisfies(TakenSum)
  /\ TakenCount # request.maxInputs
  /\ utxos' = Taken
  /\ choosenCount' = TakenCount
  /\ currentSum' = TakenSum
  /\ UNCHANGED answer

\* The token with the biggest deficit; ties are broken by the iteration
\* order of a Go map, and without a deficit it is ada.
ReplaceTokens(sum) ==
  LET deficit(t) == request.conditions[t] - sum[t]
      short == {t \in Token : deficit(t) > 0}
  IN IF short = {} THEN {Ada}
     ELSE {t \in short : \A s \in short : deficit(s) <= deficit(t)}

\* The first of the n chosen outputs that hold least of token t.
FindMinUtxo(list, n, t) ==
  Min({k \in 1..n :
         \A m \in 1..n : request.amount[list[k]][t] <= request.amount[list[m]][t]})

\* Mutant of Replace: the dropped output is overwritten in the list.
ReplaceOverwrites ==
  /\ Visit
  /\ ~Satisfies(TakenSum)
  /\ TakenCount = request.maxInputs
  /\ \E t \in ReplaceTokens(TakenSum) :
       LET k == FindMinUtxo(Taken, TakenCount, t) IN
       /\ utxos' = [Taken EXCEPT ![k] = Taken[TakenCount]]
       /\ currentSum' = Minus(TakenSum, Taken[k])
  /\ UNCHANGED <<choosenCount, answer>>

\* At the limit the smallest chosen output makes room for the next one.
Replace ==
  /\ Visit
  /\ ~Satisfies(TakenSum)
  /\ TakenCount = request.maxInputs
  /\ \E t \in ReplaceTokens(TakenSum) :
       LET k == FindMinUtxo(Taken, TakenCount, t) IN
       /\ utxos' = Swap(Taken, k, TakenCount)
       /\ currentSum' = Minus(TakenSum, Taken[k])
  /\ UNCHANGED <<choosenCount, answer>>

-----------------------------------------------------------------------------
(* After the loop *)

GiveUp(kind) ==
  /\ answer = Pending
  /\ i = Len(utxos)
  /\ answer' = [kind |-> kind]
  /\ UNCHANGED <<request, utxos, i, choosenCount, currentSum, currentSumTotal>>

ErrLimitReached == Satisfies(currentSumTotal) /\ GiveUp("limitReached")
ErrCouldNotSelect == ~Satisfies(currentSumTotal) /\ GiveUp("couldNotSelect")

Step == Satisfied \/ Keep \/ Replace \/ ErrLimitReached \/ ErrCouldNotSelect

SelectionSpec == Start /\ [][Step]_allVars

-----------------------------------------------------------------------------
(* Properties *)

\* All the swaps of a selection, replacements included, lose no output of
\* the caller's list and duplicate none (utxo_helper.go:37-38), and the
\* outputs that were not visited yet stay behind those that were.
ListKeepsAll ==
  /\ DOMAIN utxos = Utxos
  /\ \A u \in Utxos : \E k \in DOMAIN utxos : utxos[k] = u
  /\ \A k \in i + 1 .. Len(utxos) : utxos[k] = k

\* An answer of the loop is one that the contract allows: inputs within the
\* limit that hold what was asked for, with the sum they hold, or an error,
\* which with a single condition means that no inputs would have done.  With
\* two conditions it does not: the output that a replacement drops may hold
\* most of the other token.
ImplementsInputSelection == Spec
=============================================================================
