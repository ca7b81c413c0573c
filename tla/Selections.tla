----------------------------- MODULE Selections -----------------------------
(***************************************************************************)
(* The two selections of inputs side by side: a request is answered by     *)
(* GetUTXOsForAmounts of sendtx or by GetUTXOsForAmount of wallet, and     *)
(* both are held against the one contract of InputSelection.               *)
(***************************************************************************)
EXTENDS UtxoSelection

VARIABLES algorithm,   \* the function that was called
          visited,     \* the variables of GetUTXOsForAmount
          chosenUTXOs,
          singleSum

Single == INSTANCE SingleTokenSelection WITH currentSum <- singleSum

amountsVars == <<utxos, i, choosenCount, currentSum, currentSumTotal>>
singleVars == <<visited, chosenUTXOs, singleSum>>

Called ==
  /\ algorithm \in {"GetUTXOsForAmounts", "GetUTXOsForAmount"}
  /\ Start
  /\ visited = 0
  /\ chosenUTXOs = << >>
  /\ singleSum = [t \in Token |-> 0]
  /\ algorithm = "GetUTXOsForAmount" => Single!Start

GetUTXOsForAmounts ==
  /\ algorithm = "GetUTXOsForAmounts"
  /\ Step
  /\ UNCHANGED <<algorithm, singleVars>>

GetUTXOsForAmount ==
  /\ algorithm = "GetUTXOsForAmount"
  /\ Single!Step
  /\ UNCHANGED <<algorithm, amountsVars>>

SelectionsSpec ==
  Called /\ [][GetUTXOsForAmounts \/ GetUTXOsForAmount]_<<allVars, algorithm, singleVars>>
=============================================================================
