--------------------------- MODULE IndexerPipeline ---------------------------
(***************************************************************************)
(* The indexer at work: a node that follows some fork of the block tree,   *)
(* the chain-sync connection to it, the runner's queue, the BlockIndexer   *)
(* and the application's confirmed-block handler (the one of main.go).     *)
(* The runner and the syncer are seen here as the FIFO queue and the       *)
(* restarts that they provide; modules BlockIndexerRunner and BlockSyncer  *)
(* model how they provide them.                                            *)
(***************************************************************************)
EXTENDS BlockIndexer

CONSTANTS QueueChannelSize,
          NewAddresses,      \* addresses the application may add at run time
          NotRead

ASSUME PipelineAssumption ==
  /\ QueueChannelSize \in Nat \ {0}
  /\ NewAddresses \subseteq Address

VARIABLES connected,  \* the syncer has a connection that follows the node
          pointer,    \* the node's read pointer for this connection
          queue,      \* items of the runner, the one being executed included
          loop,       \* the runner's main loop
          readTxs,    \* what the running handler read from the database
          delivered   \* keys of the transactions the application processed

netVars == <<connected, pointer, queue, loop>>
appVars == <<readTxs, delivered>>
vars == <<dbVars, memoryVars, netVars, appVars>>

Forward(b) == [kind |-> "forward", point |-> b]
Backward(p) == [kind |-> "backward", point |-> p]

Init ==
  /\ InitDB
  /\ NewBlockIndexer
  /\ connected = FALSE
  /\ pointer = Genesis
  /\ queue = << >>
  /\ loop = "stopped"
  /\ readTxs = NotRead
  /\ delivered = {}

-----------------------------------------------------------------------------
(* The syncer and the node *)

\* syncExecute succeeds: the runner stopped its loop, dropped its queue, reset
\* the indexer and started a new loop; the node found the point on its chain
\* and, as chain-sync does, first rolls back to it.
Connect ==
  /\ ~connected
  /\ loop # "broken"
  /\ Reset
  /\ connected' = TRUE
  /\ pointer' = GetLatestPoint
  /\ queue' = <<Backward(GetLatestPoint)>>
  /\ loop' = "running"
  /\ UNCHANGED appVars

\* syncExecute fails after Reset: the node does not know the point (any more).
IntersectNotFound ==
  /\ ~connected
  /\ loop # "broken"
  /\ GetLatestPoint # Genesis
  /\ Reset
  /\ pointer' = GetLatestPoint
  /\ queue' = << >>
  /\ loop' = "running"
  /\ UNCHANGED <<connected, appVars>>

\* GetLatestBlockPoint fails in Reset: the loop has been stopped and its
\* channels are left closed, so the runner cannot be reset again.
ResetFails ==
  /\ ~connected
  /\ loop # "broken"
  /\ handling = NoBlock
  /\ queue' = << >>
  /\ loop' = "broken"
  /\ UNCHANGED <<dbVars, memoryVars, connected, pointer, appVars>>

Disconnect ==
  /\ connected
  /\ connected' = FALSE
  /\ UNCHANGED <<dbVars, memoryVars, pointer, queue, loop, appVars>>

\* RollForward and RollBackward of the runner block while its channel is full;
\* one more item than the channel holds is in the hands of the loop.
Enqueue(item) ==
  /\ connected
  /\ Len(queue) <= QueueChannelSize
  /\ queue' = Append(queue, item)
  /\ pointer' = item.point
  /\ UNCHANGED <<dbVars, memoryVars, connected, loop, appVars>>

NodeRollForward(b) == Parent[b] = pointer /\ Enqueue(Forward(b))

NodeRollBackward(p) ==
  /\ p \in Ancestors(pointer) \ {pointer}
  /\ Enqueue(Backward(p))

-----------------------------------------------------------------------------
(* The runner's loop: it executes the oldest item until that succeeds *)

NextItem(kind) == loop = "running" /\ queue # << >> /\ Head(queue).kind = kind

\* The item is done and the loop goes on.
ItemDone == queue' = Tail(queue) /\ UNCHANGED <<connected, pointer, loop>>

ExecuteBackward ==
  /\ NextItem("backward")
  /\ RollBackwardToUnconfirmed(Head(queue).point) \/ RollBackwardToConfirmed(Head(queue).point)
  /\ ItemDone
  /\ UNCHANGED appVars

\* The error goes to errorCh and the loop ends; nobody takes its items.
ExecuteFatal ==
  /\ NextItem("backward")
  /\ RollBackwardFatal(Head(queue).point)
  /\ loop' = "fatal"
  /\ UNCHANGED <<connected, pointer, queue, appVars>>

ExecuteForward ==
  /\ NextItem("forward")
  /\ RollForwardNotFull(Head(queue).point)
  /\ ItemDone
  /\ UNCHANGED appVars

\* The item stays with the loop until the handler has returned.
ExecuteConfirm ==
  /\ NextItem("forward")
  /\ RollForwardConfirm(Head(queue).point)
  /\ UNCHANGED <<netVars, appVars>>

\* Mutant of ExecuteFails: the item is dropped.
ExecuteFailsForGood ==
  /\ NextItem("forward")
  /\ RollForwardFails(Head(queue).point)
  /\ ItemDone
  /\ UNCHANGED appVars

\* The loop retries the item after RetryDelay.
ExecuteFails ==
  /\ NextItem("forward")
  /\ RollForwardFails(Head(queue).point)
  /\ UNCHANGED <<netVars, appVars>>

-----------------------------------------------------------------------------
(* The application's confirmed-block handler *)

HandlerReads ==
  /\ handling # NoBlock
  /\ readTxs = NotRead
  /\ readTxs' = [key \in GetUnprocessedConfirmedTxs |-> unprocessedTxs[key]]
  /\ UNCHANGED <<dbVars, memoryVars, netVars, delivered>>

\* The transactions are processed, then marked, then the item is done.
HandlerMarks ==
  /\ readTxs # NotRead
  /\ delivered' = delivered \cup DOMAIN readTxs
  /\ MarkConfirmedTxsProcessed(readTxs)
  /\ HandlerReturns
  /\ readTxs' = NotRead
  /\ ItemDone

\* The handler returns an error, before or after it processed what it read.
\* That is not a processConfirmedBlockError: the runner drops the item.
HandlerFails ==
  /\ \/ UNCHANGED delivered
     \/ readTxs # NotRead /\ delivered' = delivered \cup DOMAIN readTxs
  /\ HandlerReturns
  /\ readTxs' = NotRead
  /\ ItemDone
  /\ UNCHANGED dbVars

-----------------------------------------------------------------------------

AddAddresses ==
  /\ \E a \in NewAddresses \ addressesOfInterest : AddNewAddressesOfInterest({a})
  /\ UNCHANGED <<netVars, appVars>>

\* The process dies and is started again with the same configuration and file.
Crash ==
  /\ latestBlockPoint' = NoPoint
  /\ unconfirmedBlocks' = << >>
  /\ addressesOfInterest' = AddressesOfInterest
  /\ handling' = NoBlock
  /\ connected' = FALSE
  /\ queue' = << >>
  /\ loop' = "stopped"
  /\ readTxs' = NotRead
  /\ \/ UNCHANGED delivered
     \/ readTxs # NotRead /\ delivered' = delivered \cup DOMAIN readTxs
  /\ UNCHANGED <<dbVars, pointer>>

NodeNext ==
  \/ \E b \in Block : NodeRollForward(b)
  \/ \E p \in Point : NodeRollBackward(p)

LoopNext ==
  \/ ExecuteBackward \/ ExecuteFatal
  \/ ExecuteForward \/ ExecuteConfirm \/ ExecuteFails
  \/ HandlerReads \/ HandlerMarks \/ HandlerFails

Next ==
  \/ Connect \/ IntersectNotFound \/ ResetFails \/ Disconnect
  \/ NodeNext
  \/ LoopNext
  \/ AddAddresses
  \/ Crash

Spec == Init /\ [][Next]_vars

FairSpec ==
  /\ Spec
  /\ WF_vars(ExecuteBackward \/ ExecuteFatal)
  /\ WF_vars(ExecuteForward) /\ WF_vars(ExecuteConfirm)
  /\ WF_vars(HandlerReads) /\ WF_vars(HandlerMarks \/ HandlerFails)

-----------------------------------------------------------------------------
(* Properties *)

Item == [kind : {"forward"}, point : Block] \cup [kind : {"backward"}, point : Point]

\* Everything is where the code can put it: no more unconfirmed blocks than the
\* circular queue holds, a handler only within the main loop, a connection only
\* after the runner was reset.
TypeOK ==
  /\ savedBlockPoint \in Block \cup {NoPoint}
  /\ latestBlockPoint \in Point \cup {NoPoint}
  /\ unconfirmedBlocks \in Seq(Block)
  /\ Len(unconfirmedBlocks) <= ConfirmationBlockCount
  /\ addressesOfInterest \subseteq Address
  /\ handling \in Block \cup {NoBlock}
  /\ connected \in BOOLEAN
  /\ pointer \in Point
  /\ queue \in Seq(Item)
  /\ loop \in {"stopped", "running", "fatal", "broken"}
  /\ connected => loop \in {"running", "fatal"}
  /\ handling # NoBlock => loop = "running" /\ queue # << >>
  /\ readTxs # NotRead => handling # NoBlock

\* The indexer's view of the chain: what it confirmed, then what it holds.
ViewTip == TipOf(latestBlockPoint, unconfirmedBlocks)

\* The items that have not taken effect yet.
Pending == IF handling = NoBlock THEN queue ELSE Tail(queue)

Started == loop \in {"running", "fatal"}

\* An item of the queue goes one block up, or back to an ancestor.
Leads(from, item) ==
  IF item.kind = "forward"
    THEN Parent[item.point] = from
    ELSE item.point \in Ancestors(from)

\* While there is a main loop, the memory agrees with the database, the
\* unconfirmed blocks continue the chain of the latest confirmed block, and the
\* queued items lead from there, one by one, to the node's read pointer.
FollowsNode ==
  Started =>
    /\ latestBlockPoint = GetLatestPoint
    /\ Linked(latestBlockPoint, unconfirmedBlocks)
    /\ \A i \in DOMAIN unconfirmedBlocks :
         PathTo[unconfirmedBlocks[i]] = PathTo[latestBlockPoint] \o SubSeq(unconfirmedBlocks, 1, i)
    /\ \A i \in DOMAIN Pending :
         Leads(IF i = 1 THEN ViewTip ELSE Pending[i - 1].point, Pending[i])
    /\ pointer = IF Pending = << >> THEN ViewTip ELSE Pending[Len(Pending)].point

\* Once the queue is drained the confirmed blocks followed by the unconfirmed
\* ones are exactly the chain the node announced, whatever forks, restarts and
\* retries came before: no header is skipped, repeated or out of place.
ViewIsNodeChain ==
  loop = "running" /\ Pending = << >> =>
    PathTo[pointer] = PathTo[latestBlockPoint] \o unconfirmedBlocks

\* RollBackward gives up only when the node abandoned a block that had been
\* confirmed; a rollback within the unconfirmed blocks is never fatal.
FatalMeansOrphaned ==
  loop = "fatal" => Head(queue).point \in Ancestors(latestBlockPoint) \ {latestBlockPoint}

\* The blocks confirmed by this database since it was created.
ConfirmedPath == On(GetLatestPoint) \ On(StartPoint)

\* GetLatestConfirmedBlocks lists the node's chain from the starting point to
\* the latest confirmed block, newest first: slot keys never collide, and no
\* block of an abandoned fork is left in the bucket.
ConfirmedBlocksAreAChain ==
  LET path == PathTo[GetLatestPoint]
      count == Len(path) - Len(PathTo[StartPoint])
  IN  LatestConfirmedBlocks = [i \in 1..count |-> path[Len(path) + 1 - i]]

\* A step that confirms a block extends the confirmed chain by one child, and
\* does so only when the announced chain has ConfirmationBlockCount blocks on
\* top of it.
ConfirmsOneDeepBlock ==
  [][savedBlockPoint' # savedBlockPoint =>
       /\ savedBlockPoint' \in Block
       /\ Parent[savedBlockPoint'] = GetLatestPoint
       /\ savedBlockPoint' \in On(ViewTip')
       /\ Len(PathTo[ViewTip']) = Len(PathTo[savedBlockPoint']) + ConfirmationBlockCount]_vars

\* The indexer implements the chain of confirmed blocks it promises: seen from
\* outside, every step of node, runner, handler, crash and restart is one of
\* holding a block, confirming the oldest held one, or dropping held ones.
Confirmed == INSTANCE ConfirmedChain
  WITH Depth <- ConfirmationBlockCount,
       Start <- PathTo[StartPoint],
       confirmed <- PathTo[GetLatestPoint],
       held <- IF Started THEN unconfirmedBlocks ELSE << >>

ImplementsConfirmedChain == Confirmed!Spec

\* Outputs that pay a configured address, created and not spent on the
\* confirmed chain, are all on offer, whatever was confirmed between restarts.
UtxosComplete ==
  {ref \in Created(ConfirmedPath) \ Spent(ConfirmedPath) : AddressOf(ref) \in AddressesOfInterest}
    \subseteq NotUsedOutputs(AddressesOfInterest)

\* An output on offer to a configured address was created on the confirmed
\* chain, and if it has been spent there, then by its own block.
StaleUtxosOnlyFromOwnBlock ==
  \A ref \in NotUsedOutputs(AddressesOfInterest) :
    \E b \in ConfirmedPath :
      /\ ref \in Created({b})
      /\ ref \notin Spent(ConfirmedPath \ {b})

\* With KeepAllTxOutputsInDB the outputs on offer are exactly the unspent ones.
UtxosExact ==
  NotUsedOutputs(Address) = Created(ConfirmedPath) \ Spent(ConfirmedPath)

\* A transaction that pays a configured address, or spends an output that one
\* of the confirmed blocks before its own paid to it.
Touches(b, t) ==
  \/ AddressCheckOutputs /\ \E i \in DOMAIN Outs[t] : Outs[t][i] \in AddressesOfInterest
  \/ /\ AddressCheckInputs
     /\ \E ref \in Ins[t] \cap Created(On(Parent[b]) \ On(StartPoint)) :
          AddressOf(ref) \in AddressesOfInterest

\* Every such transaction of a confirmed block waits for the application or
\* has been given to it, through every crash and handler error, and no
\* transaction counts as processed that the application did not get.
NoTxLost ==
  /\ \A b \in ConfirmedPath : \A i \in DOMAIN TxsOf[b] :
       Touches(b, TxsOf[b][i]) =>
         \/ TxKey(b, i) \in DOMAIN unprocessedTxs /\ unprocessedTxs[TxKey(b, i)].hash = TxsOf[b][i]
         \/ TxKey(b, i) \in DOMAIN processedTxs /\ processedTxs[TxKey(b, i)].hash = TxsOf[b][i]
  /\ DOMAIN unprocessedTxs \cap DOMAIN processedTxs = {}
  /\ DOMAIN processedTxs \subseteq delivered

\* When the node stays at one point long enough and the connection lasts, the
\* indexer's view gets there, unless a rollback was fatal.
CatchesUp ==
  \A p \in Point :
    <>[](connected /\ loop = "running" /\ pointer = p) => []<>(ViewTip = p)
=============================================================================
