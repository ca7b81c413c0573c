---------------------------- MODULE BlockIndexer ----------------------------
(***************************************************************************)
(* BlockIndexer of indexer/block_indexer.go.  bi.mutex is held for the     *)
(* whole of each method, so a method is one action, except that RollForward*)
(* calls the application's confirmedBlockHandler after the database has    *)
(* committed: `handling` is the block whose handler is running.            *)
(***************************************************************************)
EXTENDS IndexerDB

CONSTANTS ConfirmationBlockCount,
          StartingBlockPoint,     \* NoPoint when the configuration has none
          AddressesOfInterest,    \* of the configuration
          AddressCheckInputs, AddressCheckOutputs,
          KeepAllTxOutputsInDB, KeepAllTxsHashesInBlock, SoftDeleteUtxo,
          NoBlock

\* ConfirmationBlockCount = 0 and a StartingBlockPoint of slot 0 that is not
\* the zero point are configurations the code does not reject and cannot run.
ASSUME ConfigAssumption ==
  /\ ConfirmationBlockCount \in Nat \ {0}
  /\ StartingBlockPoint \in Point \cup {NoPoint}
  /\ StartingBlockPoint \in Block => Slot[StartingBlockPoint] > 0
  /\ AddressesOfInterest \subseteq Address
  /\ AddressCheckInputs \in BOOLEAN /\ AddressCheckOutputs \in BOOLEAN
  /\ AddressCheckInputs \/ AddressCheckOutputs
  /\ KeepAllTxOutputsInDB \in BOOLEAN /\ KeepAllTxsHashesInBlock \in BOOLEAN
  /\ SoftDeleteUtxo \in BOOLEAN
  /\ NoBlock \notin Block

VARIABLES latestBlockPoint,     \* NoPoint until the first Reset
          unconfirmedBlocks,    \* the circular queue, oldest first
          addressesOfInterest,
          handling              \* the block its handler runs for, or NoBlock

memoryVars == <<latestBlockPoint, unconfirmedBlocks, addressesOfInterest, handling>>

\* The state of a fresh process.
NewBlockIndexer ==
  /\ latestBlockPoint = NoPoint
  /\ unconfirmedBlocks = << >>
  /\ addressesOfInterest = AddressesOfInterest
  /\ handling = NoBlock

\* An empty map means that everything is of interest.
OfInterest(address) == addressesOfInterest = {} \/ address \in addressesOfInterest

AddNewAddressesOfInterest(addresses) ==
  /\ handling = NoBlock
  /\ addressesOfInterest' = addressesOfInterest \cup addresses
  /\ UNCHANGED <<dbVars, latestBlockPoint, unconfirmedBlocks, handling>>

-----------------------------------------------------------------------------
(* RollBackward *)

RollBackwardToUnconfirmed(point) ==
  /\ handling = NoBlock
  /\ \E i \in DOMAIN unconfirmedBlocks :
       /\ unconfirmedBlocks[i] = point
       /\ unconfirmedBlocks' = SubSeq(unconfirmedBlocks, 1, i)
  /\ UNCHANGED <<dbVars, latestBlockPoint, addressesOfInterest, handling>>

\* Mutant of RollBackwardToConfirmed: the unconfirmed blocks are kept.
RollBackwardKeepingBlocks(point) ==
  /\ handling = NoBlock
  /\ \A i \in DOMAIN unconfirmedBlocks : unconfirmedBlocks[i] # point
  /\ latestBlockPoint = point
  /\ UNCHANGED <<dbVars, memoryVars>>

RollBackwardToConfirmed(point) ==
  /\ handling = NoBlock
  /\ \A i \in DOMAIN unconfirmedBlocks : unconfirmedBlocks[i] # point
  /\ latestBlockPoint = point
  /\ unconfirmedBlocks' = << >>
  /\ UNCHANGED <<dbVars, latestBlockPoint, addressesOfInterest, handling>>

\* Mutant of RollBackwardFatal: any rollback below the unconfirmed blocks is fatal.
RollBackwardAlwaysFatal(point) ==
  /\ handling = NoBlock
  /\ \A i \in DOMAIN unconfirmedBlocks : unconfirmedBlocks[i] # point
  /\ UNCHANGED <<dbVars, memoryVars>>

\* ErrBlockIndexerFatal: a block was confirmed that should not have been.
RollBackwardFatal(point) ==
  /\ handling = NoBlock
  /\ \A i \in DOMAIN unconfirmedBlocks : unconfirmedBlocks[i] # point
  /\ latestBlockPoint # point
  /\ UNCHANGED <<dbVars, memoryVars>>

-----------------------------------------------------------------------------
(* RollForward *)

\* Mutant of IsFull: one child too few.
IsFullOneEarly == Len(unconfirmedBlocks) + 1 >= ConfirmationBlockCount

IsFull == Len(unconfirmedBlocks) = ConfirmationBlockCount

RollForwardNotFull(b) ==
  /\ handling = NoBlock
  /\ ~IsFull
  /\ unconfirmedBlocks' = Append(unconfirmedBlocks, b)
  /\ UNCHANGED <<dbVars, latestBlockPoint, addressesOfInterest, handling>>

\* populateOutputsForEachInput resolves every input of the block against the
\* database as it was before this block.
IsTxInputOfInterest(t) ==
  /\ AddressCheckInputs
  /\ \E ref \in Ins[t] : GetTxOutput(ref).address \in addressesOfInterest

\* Mutant of IsTxOutputOfInterest: only the first output is looked at.
IsFirstTxOutputOfInterest(t) ==
  AddressCheckOutputs /\ Outs[t] # << >> /\ Outs[t][1] \in addressesOfInterest

IsTxOutputOfInterest(t) ==
  /\ AddressCheckOutputs
  /\ \E i \in DOMAIN Outs[t] : Outs[t][i] \in addressesOfInterest

\* The positions in the block of the transactions of interest.
FilterTxsOfInterest(b) ==
  {i \in DOMAIN TxsOf[b] :
     \/ addressesOfInterest = {}
     \/ IsTxInputOfInterest(TxsOf[b][i])
     \/ IsTxOutputOfInterest(TxsOf[b][i])}

GetTxOutputs(txs, all) ==
  {ref \in UNION {{<<t, i>> : i \in DOMAIN Outs[t]} : t \in txs} :
     all \/ OfInterest(AddressOf(ref))}

GetTxInputs(txs, all) ==
  {ref \in UNION {Ins[t] : t \in txs} : all \/ OfInterest(GetTxOutput(ref).address)}

ProcessConfirmedBlock(b) ==
  LET relevant == FilterTxsOfInterest(b)
      relevantTxs == {TxsOf[b][i] : i \in relevant}
      txs == IF KeepAllTxOutputsInDB THEN TxsIn(b) ELSE relevantTxs
  IN  /\ AddConfirmedTxs(b, relevant)
      /\ AddConfirmedBlock(b, IF KeepAllTxsHashesInBlock THEN TxsIn(b) ELSE relevantTxs)
      /\ SetLatestBlockPoint(b)
      /\ AddAndRemoveTxOutputs(GetTxOutputs(txs, KeepAllTxOutputsInDB),
                               GetTxInputs(txs, KeepAllTxOutputsInDB), SoftDeleteUtxo)
      /\ UNCHANGED processedTxs

\* Mutant of RollForwardConfirm: the new block is confirmed, not the oldest.
RollForwardConfirmNewest(b) ==
  /\ handling = NoBlock
  /\ IsFull
  /\ ProcessConfirmedBlock(b)
  /\ latestBlockPoint' = b
  /\ handling' = b
  /\ unconfirmedBlocks' = Append(Tail(unconfirmedBlocks), b)
  /\ UNCHANGED addressesOfInterest

\* The oldest unconfirmed block has all its children: it is confirmed, b takes
\* its place in the queue, and the application's handler is called.
RollForwardConfirm(b) ==
  /\ handling = NoBlock
  /\ IsFull
  /\ LET first == Head(unconfirmedBlocks)
     IN  /\ ProcessConfirmedBlock(first)
         /\ latestBlockPoint' = first
         /\ handling' = first
  /\ unconfirmedBlocks' = Append(Tail(unconfirmedBlocks), b)
  /\ UNCHANGED addressesOfInterest

\* processConfirmedBlockError: the transactions could not be retrieved, or the
\* database could not be read or written.
RollForwardFails(b) ==
  /\ handling = NoBlock
  /\ IsFull
  /\ UNCHANGED <<dbVars, memoryVars>>

\* The handler returned; RollForward returns what it returned.
HandlerReturns ==
  /\ handling # NoBlock
  /\ handling' = NoBlock
  /\ UNCHANGED <<latestBlockPoint, unconfirmedBlocks, addressesOfInterest>>

-----------------------------------------------------------------------------
(* Reset *)

StartPoint == IF StartingBlockPoint = NoPoint THEN Genesis ELSE StartingBlockPoint

GetLatestPoint == IF savedBlockPoint = NoPoint THEN StartPoint ELSE savedBlockPoint

Reset ==
  /\ handling = NoBlock
  /\ latestBlockPoint' = GetLatestPoint
  /\ unconfirmedBlocks' = << >>
  /\ UNCHANGED <<dbVars, addressesOfInterest, handling>>
=============================================================================
