------------------------ MODULE SingleTokenSelection ------------------------
(***************************************************************************)
(* GetUTXOsForAmount of wallet/transaction_extended.go: inputs that hold   *)
(* desiredSum of one token.  It keeps the maxInputs best outputs it has    *)
(* seen, one step per iteration of its loop.                               *)
(***************************************************************************)
EXTENDS SequencesExt, InputSelection

VARIABLES visited,       \* outputs the loop has visited
          chosenUTXOs,
          currentSum

Start ==
  /\ Init
  /\ OneCondition
  /\ request.tryAtLeast = 0
  /\ visited = 0
  /\ chosenUTXOs = << >>
  /\ currentSum = [t \in Token |-> 0]

\* The token of the condition; with desiredSum 0 any output will do.
TokenName == CHOOSE t \in Token :
               \A s \in Token : request.conditions[s] <= request.conditions[t]

DesiredSum == request.conditions[TokenName]

Plus(sum, u) == [t \in Token |-> (sum[t] + request.amount[u][t]) % Word]
Minus(sum, u) == [t \in Token |-> (sum[t] - request.amount[u][t]) % Word]

FindMinUtxo(chosen) ==
  Min({k \in DOMAIN chosen : \A m \in DOMAIN chosen :
         request.amount[chosen[k]][TokenName] <= request.amount[chosen[m]][TokenName]})

-----------------------------------------------------------------------------
(* An iteration *)

All == Append(chosenUTXOs, visited + 1)
AllSum == Plus(currentSum, visited + 1)

Grow ==
  /\ Len(All) <= request.maxInputs
  /\ chosenUTXOs' = All
  /\ currentSum' = AllSum

\* One too many: the last one takes the place of the smallest.
Displace ==
  LET k == FindMinUtxo(All) IN
  /\ Len(All) > request.maxInputs
  /\ chosenUTXOs' = Front([All EXCEPT ![k] = Last(All)])
  /\ currentSum' = Minus(AllSum, All[k])

Visit ==
  /\ answer = Pending
  /\ visited < Cardinality(Utxos)
  /\ visited' = visited + 1
  /\ Grow \/ Displace
  /\ UNCHANGED request

Enough ==
  /\ Visit
  /\ currentSum'[TokenName] >= DesiredSum
  /\ answer' = [kind |-> "selected", inputs |-> ToSet(chosenUTXOs'), sum |-> currentSum']

NotEnough ==
  /\ Visit
  /\ currentSum'[TokenName] < DesiredSum
  /\ UNCHANGED answer

-----------------------------------------------------------------------------
(* After the loop *)

GiveUp(kind) ==
  /\ answer = Pending
  /\ visited = Cardinality(Utxos)
  /\ answer' = [kind |-> kind]
  /\ UNCHANGED <<request, visited, chosenUTXOs, currentSum>>

ErrLimitReached == SumOf(Utxos)[TokenName] >= DesiredSum /\ GiveUp("limitReached")
ErrNotEnoughFunds == SumOf(Utxos)[TokenName] < DesiredSum /\ GiveUp("couldNotSelect")

Step == Enough \/ NotEnough \/ ErrLimitReached \/ ErrNotEnoughFunds

=============================================================================
