------------------------------ MODULE IndexerDB ------------------------------
(***************************************************************************)
(* The indexer's database, indexer/db/bbolt.  A bucket is a function from  *)
(* the keys it holds to their values.  The operators build the contents a  *)
(* bucket has after an operation of the transaction writer; Execute runs   *)
(* all queued operations in one bbolt transaction, so an action that       *)
(* primes the five buckets together is one Execute.                        *)
(***************************************************************************)
EXTENDS Chain, FiniteSets

CONSTANTS NoPoint,   \* the latest block point bucket is empty
          NoAddress  \* the address of a zero TxOutput

ASSUME NoneAssumption == NoPoint \notin Point /\ NoAddress \notin Address

VARIABLES savedBlockPoint,  \* latestBlockPoint bucket
          confirmedBlocks,  \* confirmedBlocks bucket, by slot
          txOutputs,        \* txOutputs bucket, by transaction and index
          unprocessedTxs,   \* unprocessedTxs bucket, by slot and index in block
          processedTxs      \* processedTxs bucket, by slot and index in block

dbVars == <<savedBlockPoint, confirmedBlocks, txOutputs, unprocessedTxs, processedTxs>>

EmptyBucket == << >>

\* Buckets are created empty when the file is new and kept when it is not.
InitDB ==
  /\ savedBlockPoint = NoPoint
  /\ confirmedBlocks = EmptyBucket
  /\ txOutputs = EmptyBucket
  /\ unprocessedTxs = EmptyBucket
  /\ processedTxs = EmptyBucket

\* Put of every key of `entries`, and Delete of every key of `keys`.
Put(bucket, entries) ==
  [k \in DOMAIN entries \cup DOMAIN bucket |->
     IF k \in DOMAIN entries THEN entries[k] ELSE bucket[k]]
Delete(bucket, keys) == [k \in DOMAIN bucket \ keys |-> bucket[k]]

\* Mutant of BlockKey: a key too short for the slot, so that old entries are
\* overwritten.
BlockKeyTooShort(b) == Slot[b] % 2

BlockKey(b) == Slot[b]
\* Mutant of TxKey: the key does not tell the transactions of a block apart.
TxKeyWithoutIndex(b, i) == <<Slot[b], 1>>

TxKey(b, i) == <<Slot[b], i>>

\* Mutant of GetTxOutput: the bucket is not consulted.
GetNoTxOutput(ref) == [address |-> NoAddress, used |-> FALSE]

\* GetTxOutput: the zero output when the bucket does not have the key.
GetTxOutput(ref) ==
  IF ref \in DOMAIN txOutputs
    THEN txOutputs[ref]
    ELSE [address |-> NoAddress, used |-> FALSE]

AddConfirmedBlock(b, hashes) ==
  confirmedBlocks' = Put(confirmedBlocks, [key \in {BlockKey(b)} |-> [hash |-> b, txs |-> hashes]])

SetLatestBlockPoint(p) == savedBlockPoint' = p

\* A transaction is stored with the outputs its inputs were resolved to.
AddConfirmedTxs(b, indices) ==
  unprocessedTxs' =
    Put(unprocessedTxs,
        [key \in {TxKey(b, i) : i \in indices} |->
           LET t == TxsOf[b][key[2]]
           IN  [hash |-> t, inputs |-> [ref \in Ins[t] |-> GetTxOutput(ref).address]]])

AddTxOutputs(bucket, refs) ==
  Put(bucket, [ref \in refs |-> [address |-> AddressOf(ref), used |-> FALSE]])

\* Inputs whose output the bucket does not hold are ignored.
RemoveTxOutputs(bucket, refs, softDelete) ==
  IF softDelete
    THEN [ref \in DOMAIN bucket |->
            IF ref \in refs THEN [bucket[ref] EXCEPT !.used = TRUE] ELSE bucket[ref]]
    ELSE Delete(bucket, refs)

\* Mutant of AddAndRemoveTxOutputs: the outputs are removed before the new ones
\* are added.
RemoveAndAddTxOutputs(added, removed, softDelete) ==
  txOutputs' = AddTxOutputs(RemoveTxOutputs(txOutputs, removed, softDelete), added)

AddAndRemoveTxOutputs(added, removed, softDelete) ==
  txOutputs' = RemoveTxOutputs(AddTxOutputs(txOutputs, added), removed, softDelete)

\* The keys GetUnprocessedConfirmedTxs(0) returns: all of them.
GetUnprocessedConfirmedTxs == DOMAIN unprocessedTxs

MarkConfirmedTxsProcessed(txs) ==
  /\ unprocessedTxs' = Delete(unprocessedTxs, DOMAIN txs)
  /\ processedTxs' = Put(processedTxs, txs)
  /\ UNCHANGED <<savedBlockPoint, confirmedBlocks, txOutputs>>

\* GetAllTxOutputs(address, TRUE): what is offered for spending.
NotUsedOutputs(addresses) ==
  {ref \in DOMAIN txOutputs : txOutputs[ref].address \in addresses /\ ~txOutputs[ref].used}

\* GetLatestConfirmedBlocks(0): the cursor goes from the last key to the first.
LatestConfirmedBlocks ==
  LET keys == DOMAIN confirmedBlocks
      Above(k) == {m \in keys : m > k}
      Key(i) == CHOOSE k \in keys : Cardinality(Above(k)) = i - 1
  IN  [i \in 1..Cardinality(keys) |-> confirmedBlocks[Key(i)].hash]
=============================================================================
