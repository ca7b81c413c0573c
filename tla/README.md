# A TLA+ verification project for cardano-infrastructure

The repository holds an *indexer*, which follows a Cardano node, confirms blocks and keeps the transactions and
outputs of the addresses of interest, and a *wallet* side, which selects outputs, builds and submits transactions and
keeps keys. This directory models the parts that hold state or take decisions, checks them with TLC on small
instances, and proves what matters most, for every value of the constants, with TLAPS.

    tlc -config MCPipelineFiltered.cfg MCIndexerPipeline      # one run
    tlapm IndexerPipelineProofs.tla                           # one proof module

## 1. The system

| component | state | operations | talks to |
|---|---|---|---|
| `common/circular_queue.go` | ring buffer: cells, position, count | Push, Pop, Peek, SetCount, ClearFrom, Find, ToList | used by the block indexer |
| `indexer/block_indexer.go` | latest confirmed point, unconfirmed blocks, addresses of interest | RollBackward, RollForward, Reset, AddNewAddressesOfInterest | database, transaction retriever, application handler |
| `indexer/db/bbolt` | five buckets: latest point, confirmed blocks, outputs, unprocessed and processed transactions | one writer transaction per confirmed block, queries, MarkConfirmedTxsProcessed | bbolt file |
| `indexer/block_indexer_runner.go` | queue, stop, finished, close and error channels | RollForward and RollBackward (enqueue), main loop with retries, Reset, Close | block indexer below it, syncer above it |
| `indexer/gouroboros/block_syncer.go` | connection, lock, closed flag, error channel | Sync with retries, one errorHandler per connection, callbacks, Close | Cardano node (gouroboros), runner |
| `main.go` | - | the confirmed-block handler, wiring, restart on the same file | all of the above |
| `common/retry.go` | attempt counter | ExecuteWithRetry | used by the sender |
| `sendtx` | a builder per call | selection of outputs, fees and change, bridging transactions, SubmitTx | wallet, transaction providers |
| `wallet/transaction.go`, `policy_script.go` | fields of the builder, a directory of files | setters, Build, CalculateFee, CalculateMinUtxo, SignTx, witness counts | cardano-cli |
| `wallet/txprovider_*.go` | a shared connection (gouroboros), the file `tx.send` (cli), nothing (the others) | SubmitTx, queries, Dispose | node, cardano-cli, remote services |
| `wallet/address*.go`, `bech32` | bytes, cached text | build, parse, print and read an address | used by the builder and the providers |
| `secrets` | files or remote stores | SetSecret, GetSecret, HasSecret, RemoveSecret | file system, remote services |
| `logger`, `gorules` | - | output, lint rules | - |

How a block travels: the node announces headers and rollbacks to the callbacks of the syncer; these put items on the
runner's queue; the runner's loop gives them one by one to the block indexer; the indexer holds back the newest
`ConfirmationBlockCount` headers; when one more arrives it fetches the oldest held block, writes it, its transactions
and outputs in one database transaction, and calls the application's handler. When the connection fails the syncer
connects again and resets the runner, which stops its loop, resets the indexer to the saved block and starts again.

What is hard about it:

* **interleavings**: callbacks, loop, Reset and Close run in different goroutines and share channels that Reset
  replaces; Sync runs from the application and from error handlers, and races with Close;
* **forks and restarts**: rollbacks within and below the held blocks, disconnections and crashes between the database
  transaction, the handler and the marking of processed transactions;
* **retries**: a block that cannot be processed is retried for ever, a handler error is not;
* **stale data**: inputs are resolved against the database before the block's own outputs are there; a ring buffer
  keeps truncated items in its cells;
* **blocking**: error channels with room for one error, and sends that nothing interrupts;
* **half-done calls**: files of a builder call that failed, a secret whose second half was never written, a
  submission whose answer was lost, a file that two submissions share;
* **numbers**: unsigned differences and sums that wrap around, 5-bit groups, numbers of variable length, counts of
  witnesses.

What makes each component correct: the ring buffer is a FIFO queue; the indexer's confirmed blocks are an append-only
chain, each with enough children; the stored outputs are the unspent ones; no transaction is lost or processed twice
without the application seeing it; the runner delivers items in order and nothing stale after a Reset; every
goroutine ends after Close, but for one whose error nobody reads; the syncer has one connection, watches it, and never stays disconnected in silence. On
the wallet side: value is conserved and the fee is enough; a result of the builder is made of this call's fields; a
submission that reports success was taken by the node; an address reads back as what was printed, and a mistyped one
never as somebody else's; a secret that was reported set stays.
`PROJECT.json` lists the hazards with their lines.

## 2. The modules

| module | models |
|---|---|
| `BoundedQueue` | what a caller of the ring buffer may rely on: a FIFO queue of bounded length |
| `CircularQueue` | the ring buffer, cell by cell; `Next` calls every method with every argument |
| `Chain` | the block tree of the node and the ledger on it; external, known from how the indexer uses it |
| `IndexerDB` | the five buckets and the operators that one bbolt transaction is made of |
| `BlockIndexer` | one operator per method of `BlockIndexer`, split where the method branches |
| `ConfirmedChain` | what the indexer promises: an append-only chain of confirmed blocks and at most `Depth` held ones |
| `IndexerPipeline` | node, connection, queue, loop, indexer, database and application handler in one next-state relation |
| `BlockIndexerRunner` | the channels of the runner, one generation per Reset, with loop, callbacks, Reset and Close |
| `BlockSyncer` | Sync, errorHandler, Close and the connections, one thread per goroutine |
| `GouroborosProvider` | the connection that the calls of the gouroboros provider share, its loop and Dispose |
| `TxSubmission` | composes `GouroborosProvider`, the other providers' SubmitTx, `ExecuteWithRetry`, `TxSender.SubmitTx` and a node that takes a transaction once |
| `InputSelection` | what a caller may expect of a selection of inputs: one step that answers a request |
| `UtxoSelection` | `GetUTXOsForAmounts`, iteration by iteration, on the list that it reorders in place |
| `SingleTokenSelection` | `GetUTXOsForAmount`, iteration by iteration |
| `Selections` | the two selections side by side, against the one contract |
| `TxSender` | one call of the sender, step by step between its calls of the provider and of cardano-cli |
| `TxBuilder` | the builder: its fields, the files of its directory, the runs of cardano-cli, the witness counts |
| `Bech32` | the bech32 encoding: checksum, strings, regrouping of bits |
| `Addresses` | the address types on top of `Bech32`, and one address on its way from parts to text to a reader |
| `Secrets` | the local manager by system call, and those of Vault, AWS and GCP by request, for callers that share a name |
| `MC...` | instances for TLC: a block tree with two forks, model values, symmetry |
| `...Proofs` | lemmas and theorems about the module of that name; `TxSenderProofs` also those about `TxBuilder`, with which it shares the sums |

Correspondence with the code. Each method that runs under a mutex is one action. In `IndexerPipeline`, `handling` and
`readTxs` split `RollForward` where the application's handler runs, because a crash may fall between the database
transaction, the handler's query, its own work and its marking. The queue of the pipeline holds the items of the
runner's channel and, at its head, the one the loop is executing, so it may hold one more than the channel. The
pipeline takes from the runner that items come in order and that a Reset drops them (checked in
`BlockIndexerRunner` as `InOrder` and `NoStaleItem`), and from the syncer that there is one connection (checked in
`BlockSyncer` as `OneConnection`). In `BlockIndexerRunner` a channel is named by its generation: `gen` is the one in
the runner's fields, `captured` and `channels` are what a callback or a loop read under the lock. In `BlockSyncer`,
thread 0 is the application and thread c the error handler of connection c.

`UtxoSelection` and `SingleTokenSelection` implement `InputSelection`, and `TxSender` takes its inputs from that
contract: `GetUTXOsForAmounts` of `TxSender` is `InputSelection!Next`, so what holds of the sender holds whichever
inputs the loop picks. A value is a function from tokens to amounts, with 0 for a token that is not there; whether a
map of the code holds the key with 0 is not modelled. Iteration over a Go map is a choice (`ReplaceTokens`). The
transformer of the application chooses any part of the wallet, and `CalculateMinUtxo` grows with the number of
tokens.

`TxSubmission`: `count` is the loop variable of `ExecuteWithRetry`, `answer` what the handler came back with, and
`Decide`, `SelectTime` and `SelectContext` are the branches behind it. A request is named by its caller and try, so
that a late answer to an earlier try is told from the one that is awaited. "http" stands for Blockfrost, Demeter and
Ogmios, which differ in nothing that the control depends on; Cats decides by a field of the body; cli writes `tx.send` and
runs cardano-cli on it in two steps; gouroboros goes through the actions of `GouroborosProvider`. A gateway's body is taken to be no JSON or to have
the shape of the service's own errors: `getErrorFromResponseOgmios` panics on any other. The
gouroboros call and its return are one action with the answer of the node.

`TxBuilder`: the directory is a function from the names of files to what was written to them, an operation is the
sequence of its writes (`Writes`; each adds one file, or none where the code skips it) and
a run of cardano-cli, and its arguments name how many writes succeeded and what the run did: done, failed, or done with a
complaint on stderr, which `runCommand` takes for an error. cardano-cli builds what the *files* say (`BodyInFiles`); the property compares that with what the
*fields* say (`BodyMeant`). A `*PolicyScript` is a pointer, since the code compares pointers; what it points to is a member of
`Script`, the scripts with all their parts, over which `GetCount` is a recursive function, and `Height` says how deep each nests. A
token slice has an identity, since `UpdateOutputAmount` writes through it.

`Bech32` and `Addresses`: characters are codes, bytes are 0..255; the register of the checksum is six digits of five bits.
`readOne` keeps the low bits of the word. The machine of `Addresses` has the code's two entrances
(`ToCardanoAddress` and `NewCardanoAddress`), its printer and its reader, and between them a typist. `ByronAddresses` is the table of the bytes that
`IsValid` of the Byron parser accepts (tag and crc32), with their base58 and with what cbor finds inside: nothing, or a hash and a network attribute of
any length. `ByronInfo` is what the code makes of that: `Unsupported` when nothing was found, a panic (`Panicked`, a value of `GetInfo`) when the
hash is too short, else the parts.

`Secrets`: an action is a system call of `SaveFileSafe` and `os.WriteFile`, or a request to a service, which is sent or
not and whose answer is heard or not; a caller may end between any two. `overlapped` and `promised` are history: a set
whose call did not overlap another set or remove promises its value.

Abstractions of the indexer: a block is its hash, with its slot, parent and transactions given by constants; amounts, tokens, datums and
metadata do not occur, because the indexer never decides on them; an output is its transaction and index, and its
address. Every transaction is taken to be phase-2 valid (see the hazard at `createTx`).
Mutants, named in comments as such, are variants of an operator with a plausible mistake. No specification uses
them; they document which mistake each property would reveal.

## 3. The runs

| run | question | instance |
|---|---|---|
| `circular_queue` | is the ring buffer a FIFO queue? | 3 cells, 3 items (symmetric): `pos` wraps, truncated cells are reused |
| `pipeline_filtered` | does the indexer follow the node, confirm the right blocks, keep the right outputs and lose no transaction? | two forks that part after one block and are long enough to confirm a block on either side, confirmation count 2, queue 2, one address of interest, one more that may be added |
| `pipeline_keep_all` | the same with a configured starting point, all outputs kept and soft deletion; does the indexer catch up? | as above, starting at `a1`, fairness below |
| `runner` | is the indexer reset only without a running loop, are items in order and never stale, does everything end after Close, and does Reset return, whether or not anybody reads the errors? | two callbacks, queue 1, three Resets, three items |
| `syncer` | is there one connection, is it watched, is a failure repaired or reported, and does Close end everything? | three connections, two tries per Sync |
| `selection` | are the chosen inputs within the limit, do they hold what was asked for, is nothing lost from the list, does an error mean that nothing would have done? | lists of up to four outputs with two tokens, every condition, limit 1 to 3, sums modulo 5 so that they wrap around |
| `sender` | is value conserved, the change large enough, the metadata right, for any fee and any failure? | wallets of up to three outputs, up to two receivers, fees from 0 to more than all that remains |
| `submission` | is a reported success one of the node, is a rejection of an accepted transaction due to a retry, does a submission return, is the gouroboros connection shared, and does its loop end after Dispose? | two callers, two tries, two connections, each provider |
| `addresses` | does an address read back as what was printed, do bytes keep their meaning, is a mistyped address never another payee? | all types (of Byron: both networks, a hash too long, one too short, and no address inside), networks 0 to 2, keys of three bytes, every single mistake with the whole charset as keyboard |
| `builder` | is a result made of this call, does the fee pay for the witnesses, do other outputs keep what they had? | four calls, two inputs, two scripts ("both of two" and "any of"), two token slices, a failure at any file or run |
| `secrets` | does a secret stay, is it never replaced, what is left of a half-done set? | three callers, two values (symmetric), four calls, all four managers |
| `runner_panic` | the finding of section 6 | as `runner`, two Resets |

Some properties deserve a word. `StaleUtxosOnlyFromOwnBlock` bounds the known behaviour that an output which is
created and spent in one block stays on offer (section 6): nothing else ever does. `PotentialFeeSuffices` says that
the conditions of the selection reserve enough for the fee and for the change, although the change is reckoned before
inputs are chosen. `ValueConserved` excepts, for fees above `PotentialFee`, the tokens of a change output that is
removed because nothing is left for it. `SubmittedMeansAccepted` names the two ways in which success may be wrong: a
body of Cats that names no error, and two submissions of one cli provider at once. `NeverAnotherPayee` lets a base address
be read with one more byte behind its keys: bech32 does not notice a "q" put in before a final "p", and the parser of base addresses
keeps surplus bytes as `Extra`. `BytesKeepTheirMeaning` lets a stake pointer change its bytes: a number may be written with leading
zeros, or with bits above the word, which `readOne` loses; and it names the bytes of which nothing can be built, Byron bytes with the right tag and
checksum but no parts in them. `CloseEndsAll` and `ResetReturns` end in `[]` of their exception: the loop must keep waiting with an unread error for ever,
else it has to end and Reset has to return. `FeePaysForWitnesses` is about scripts that some keys satisfy (an "atLeast"
may ask for more than it has parts) and excepts the keys of a minting policy, which the builder does not count. `HalfSetNeedsRemoval` says what is left of a set that stops between its two halves.

Type invariants are theorems where a component has proofs (section 5) and are then not run again; the runs spend their
time on the other properties.

Bounds and why they are enough. The forks of `MCIndexerPipeline` share a slot and a transaction, one of them spends
an output within the block that creates it, and both are longer than the confirmation count, so that a rollback to a
held block, to the confirmed block, and below it all happen. The queue holds more than one item, so that items of two
forks are in it together. In the runner, four generations of channels let a callback, a loop and Reset each hold a
different one, and a third Reset wait for a loop whose fatal error is the second that nobody reads; three items are one that is
executed, one in the queue and one in the hand of a callback. In the syncer, three connections let an error handler of an old connection sync again
while the application has already made a new one. Four outputs and a limit of two or three let the selection replace
twice before it ends. The largest fee of `sender` is more than the least remainder, so that the unsigned difference wraps around, and one fee
equals it. Two tries and two callers let a late request of one try be taken while the next one waits, and two cli submissions overlap.
Keys of three bytes leave the same odd bits in 5-bit groups as those of 28 (28 = 3 mod 5), and a word of 8 bits the
same in groups of seven as one of 64; the checksum is the real one. Four calls of the builder are an operation that fails,
two setters and an operation, or a scripted input, two certificates and the fee. Three callers and four calls of a secrets manager let two sets overlap a remove and
a get see the result; what does not depend on the number is proved. `CHECK_DEADLOCK FALSE` is used where the system
really stops: the runner and the syncer after Close or when the bounds are used up, submissions, selections and the sender, which are calls
that return, an address that was read, and the builder and the secrets when their bound of calls is used up.

## 4. Fairness

`FairSpec` of the pipeline: the loop executes what is at the head of the queue, a database that fails does not fail
for ever, and the handler returns. Node and connection have no fairness; `CatchesUp` assumes a connection that lasts and a
node that settles. `FairSpec` of the runner: each goroutine that can go on does (weak fairness of its steps), and a
`select` that is reached again and again with a closed stop channel takes it at last (strong fairness of
`LoopStops`: Go chooses uniformly among the ready cases). Nobody need receive from `ErrorCh`, and `main.go` never does for the runner
(`ReadErrorCh` has no fairness): `CloseEndsAll` and `ResetReturns` name the loop that waits to send a second error as the
one exception. `FairSpec` of the syncer: the same (`main.go` takes one error of the syncer and no more, so `CloseStopsAll` has the same exception), and a
goroutine that waits for the mutex gets it at last (`sync.Mutex` is starvation-free). `SubmissionFairSpec`: the goroutine of a submission and
that of the provider's loop run; the loop's `select` takes a closed `closeCh` at last although an error channel that is closed is always ready;
a gouroboros call ends when its timeout does. The node and the network need not answer: `SubmissionReturns` therefore asks for a
context that ends, or for gouroboros. A submission over cardano-cli waits as long as the process does. Calls of Sync, Close and
Reset, submissions, and failures, are never assumed.


## 5. What is proved

| module | theorems | assumes |
|---|---|---|
| `CircularQueueProofs` | `TypeCorrect`; `RefinementCorrect`: the ring buffer implements `BoundedQueue` | a size of at least 1 |
| `IndexerPipelineProofs`, the chain | `TypeCorrect`, `FollowsNodeCorrect`, `ViewCorrect`, `FatalCorrect`, `ConfirmsCorrect`, and `RefinementCorrect`: the pipeline implements `ConfirmedChain` | the assumptions of `Chain` on the tree and the ledger; a confirmation count of at least 1 |
| `IndexerPipelineProofs`, the data | `StoreCorrect`, `ConfirmedBlocksCorrect` | the same |
| | `UtxosExactCorrect` | and `KeepAllTxOutputsInDB` |
| | `UtxosCompleteCorrect`, `NoTxLostCorrect` | and `OutputsFound`: `AddressCheckOutputs` or `KeepAllTxOutputsInDB` |
| | `StaleUtxosCorrect` | and `InputsFound`: `AddressCheckInputs` or `KeepAllTxOutputsInDB` |
| `BlockIndexerRunnerProofs` | `TypeCorrect`, `ResetExclusiveCorrect`, `NoStaleItemCorrect`, `InOrderCorrect` | natural bounds |
| `BlockSyncerProofs` | `TypeCorrect`, `OneConnectionCorrect`, `MonitoredCorrect` | natural bounds |
| `SelectionsProofs` | `ListCorrect`: `GetUTXOsForAmounts` permutes the list of its caller; `AmountsCorrect`: it implements `InputSelection`; `SelectionsCorrect`: so does whichever of the two selections is called | amounts are naturals below a word, limits of at least 1 |
| `TxSenderProofs` | `InvCorrect` | finitely many tokens, a positive minimum of ada for an output with tokens, amounts below a word |
| | `ValueConservedCorrect`, `PotentialFeeCorrect`, `MinUtxoCorrect`, `MetadataCorrect` | and `SumsFit`: sums of a wallet, of a request and of what is added to it fit a word |
| `TxSenderProofs`, the builder | `BuilderTypeCorrect`, `ResultCorrect`, `FeeCorrect`, `OutputsCorrect` | a policy script has no end of parts (`Height`); the types of what is given to the builder |
| `WalletProofs`, submission | `OneConnectionIsShared`, `SubmissionTypeCorrect`, `SuccessIsAcceptance`, `RejectionComesFromRetry` | natural bounds |
| `WalletProofs`, addresses | `MeaningCorrect` | bytes and text of a Byron address name each other; nothing of what is in the bytes |
| | `RoundTripCorrect` | and `TextsFit`: no text is longer than `MaxBechStrLength`; `ByronTextsStandOut`: no Byron text begins like a bech32 one |
| `SecretsProofs` | `TypeCorrect`, `SetSecretIsKept`, `ValueIsNeverReplaced`, `HalfSetStays` | an empty file is no value |

All of them hold for every value of the constants: every block tree, queue size, number of callbacks, connections,
outputs, wallets, fees. The hypotheses in the last column are constant-level formulas that the instances of the
runs satisfy: the passing runs of the pipeline have both address checks, one with and one without
`KeepAllTxOutputsInDB`, and TLC evaluates `SumsFit` for
the instance of the run `sender` (`FitsAssumption`), `TextsFit` and `ByronTextsStandOut` for that of `addresses` (`MCTextsFit`).

*Ring buffer.* The invariant is `TypeOK`; the argument is one lemma per method, on the list that the cells show
(`ToList`), in which the index arithmetic modulo the size is done once (`ListType`).

*Pipeline.* `FollowsNode` says that the confirmed block, then the held blocks, then the items of the queue are moves
that end at the node's read pointer: forward to a child, back to an ancestor. `ViewIsNodeChain` and
`FatalMeansOrphaned` are not inductive: what is wrong with a view shows only when the queue is drained, long after the wrong
step. `FollowsNode` is inductive because every handler takes one item from the front of the list of moves and
applies it, and the node appends one. `Inv` adds the types and that the item of a fatal error stays at the head.
Refinement uses `PathTo[b]`, the path from the origin to a confirmed block, as the abstract chain.

*Stored data.* What the database holds depends on every block it has confirmed, so none of its properties is
inductive. `StoreInv` says what each bucket holds as a function of the confirmed chain alone: the outputs, with who spent
them; the transactions, processed or not; the confirmed blocks under their slots. Confirming one block extends each
of these by what that block adds and removes; no other step, a crash or a rollback included, moves the confirmed
chain, and a handler only moves transactions from one bucket to the other. Three facts about the tree carry this: a new block on the chain is not yet
on it and has a larger slot than all that are (else `Put` would overwrite a key), an output is
created once and spent after its creation (the ledger), and slots order the chain. They are proved by induction along
the path of a block, by the least length at which it could fail (`LeastLength`). `GetLatestConfirmedBlocks` is the bucket
in the order of its keys: the i-th block is the one with i - 1 larger keys, and that many blocks of
the chain lie above it. The hypotheses are needed. Without a check of outputs, and without all outputs kept, no
transaction is recognised by what it spends either, because the spent output was never stored; without a check of inputs a spent output stays on
offer, as that configuration asks for.

*Runner.* `ResetExclusive` alone is not inductive. `Exclusion` adds which generation of the channels each loop and
Reset hold: a finished loop is dead, no loop has a generation of the future, and the indexer is reset only after the
loop of the present generation has closed its channel. `Items` adds that an item in a queue, or in the hand of a callback, carries the
generation of that queue, from which `NoStaleItem` and, with the order of the numbers in a queue, `InOrder` follow.

*Syncer.* `OneConnection` needs that a thread dials only when nothing is connected (`DialsUnconnected`) and syncs only on
what it dialed (`SyncsConnected`); `Monitored` needs that a handler belongs to a connection that was dialed and that a closed
error channel means a closed connection.

*Selection.* `ListKeepsAll` needs that the position of the visited output is not before the end of the chosen ones
and that the dropped one is among them; the latter rests on the existence of a least element of a set of naturals
(`LeastNatural`, from the well-foundedness of `<`). The refinements of `InputSelection` need what the loops carry along: the running sum is
that of the chosen outputs modulo a word (`PlusAdds` and `MinusTakes`: a sum that wrapped around on the way up comes
back when an output is dropped), and a sum in words is never more than the outputs hold, so inputs that satisfy the conditions in
words satisfy them in numbers. That an error hides no solution is an exchange argument. With one condition the chosen outputs
are the best of the visited ones for its token (`Best`, `BestDrop`), all of them or, in `GetUTXOsForAmounts`, one less than the limit, in
`GetUTXOsForAmount` the limit (`Top`); any inputs within the limit hold no more than these with the visited one (`TopDominates`), so if these fall short,
so does everything (`NextIsBest`, `TopIsNotEnough`). The argument needs that the list itself fits a word (`FitsWord`): else the best
outputs may wrap around to a small sum while smaller ones would do. The lemmas on sums over finite sets are those of `TxSenderProofs`.

*Sender.* The steps of a call only prepare what the last one reckons with, so `Inv` says of each stage what has been prepared:
the outputs and the metadata of the request, the conditions over some choice from the wallet, and inputs of that choice
that hold what the conditions want. The rest is about the last step. Under `SumsFit` no sum wraps around, the
inputs hold at least the outputs, `PotentialFee` and `ChangeMinUtxo` (`Reckoning`), and the one subtraction that can go below zero,
that of the fee, is seen by `Insufficient` because a fee is less than a word (`ChangeOrWrap`). The minimum of the change is reckoned with the
tokens of the whole wallet; the inputs are part of it, so the change has no other tokens, and the minimum grows with the
tokens (`MinUtxoGrows`). The supply of ada, below 2^56 lovelace, gives `SumsFit` for what a wallet
holds of ada; of a native token, and of the amounts of a request, it is an assumption that the code does not check: without it the conditions
themselves wrap around and the selection is asked for less than is paid (`tx_sender.go:576` adds up words). Sums are folds of the library, which take their members in an order that
`CHOOSE` gives: that the order does not matter is proved by induction over the subsets of a finite
set (`SubsetInduction`, `SumOfInts`).

*Builder.* `ResultIsOfThisCall` compares two readings of one transaction: what cardano-cli finds in the files and what the fields
mean. `Meant` names, for every file a transaction refers to, the content it should have; each write of an operation is of that content
(`WrittenIsMeant`), every file of `Meant` is among the writes (`MeantIsWritten`), and the last write to a name wins, so that the
directory shows it whatever was in it before. Signing is an induction over the signers: each witness is read before the next
one overwrites its file. For the fee, `ResultCounted` strengthens the invariant: a fee that was answered counts
`CountedWitnesses` of fields that have not changed since. That this is enough is a statement about every tree of scripts:
`FewKeysSuffice` finds, for a script that any keys satisfy, at most `GetCount` keys that do, by induction over `Height`; more keys
never harm (`SatisfyingGrows`), so the union over the scripts and the keys of plain inputs satisfies
everything (`EnoughWitnesses`), and a script that is given for many certificates needs its keys once. `GetCount` and `Satisfying` are
recursive functions; that they obey their equations for scripts of any depth is proved by the least height at which they could not (`ScriptRecursion`).

*Submission.* `SharedConnection` needs that an open connection is the one of the field, unless some connection has failed,
and that the loop clears the field only after a connection has failed (`ConnectionInv`). The steps of a submission are steps of
the connection or leave it alone (`SubmissionIsConnectionStep`), so its invariant is proved once. The submission itself rests on
`TriesAllowed` (a caller in the midst of a try has a try left) and `SubmissionInv`: a request in flight is of a try its caller
has made, and a caller that owns its transaction (`Own`: all but a cli caller whose file another one may write) heard
"accepted" only of a transaction the node took, and has nothing of its own in `accepted` before its first try
is answered. The latter is why a rejection after acceptance can only come from a retry.

*Addresses.* `BytesKeepTheirMeaning`, for bytes with parts in them (`Meaningful`; of the others `NothingBuilt`), follows from an invariant (`MadeOfBytes`: the address is what its bytes make, and its parts are
those it was built of) and two statements about the conversions of every type. Parts are found in the bytes that are built of them
(`Faithful`; the header is taken apart bit by bit, the hashes by their place), and bytes that pass for an address are built again of the
parts that are read from them (`BaseRead` and its like). Stake pointers are the hard part. The groups of a number, a recursive function, are
read back as the number because what has been read is its quotient (`ReadGroups`), three numbers are told apart by the bytes that are not
marked (`StakePointerOfNumbers`), and a number has no more groups than the bytes it was read from, since it loses bits above the word and
leading zeros (`ReadIsShort`, `GroupsAreMonotonic`). That a loop, a recursive function of the step, takes each of its steps is proved once (`LoopSteps`),
by the least number of steps at which it could not.

`RoundTrip` adds what happens to a text (`OnItsWay`: until it is mistyped it is one of the texts of the address, and what was read is what a
reader makes of it). The rest is bech32, written and read back. `ChecksumVerifies`: a register that takes six values becomes what it becomes with
six zeros, plus the values (`SixValues`; plus is the exclusive or of digits). On the way the two registers differ by the values taken so far,
in their lowest digits (`Apart`), so that the first digit, which chooses the generators, is the same in both. The checksum is the register after
six zeros plus one; taken by the same register it leaves one. That needs no fact about the generators but that they are six groups. `ReadWritten` finds the last separator, which is no character of a
group, and the groups of the characters; `ConvertAndBack` groups bits by five and by eight again, with at most four zeros lost. A text of a
network without a prefix begins with the separator, and neither kind of reader takes it (`NoPrefixIsNotRead`).

*Secrets.* `KeepsWhatWasSet` is not inductive: a local set that passed its check before another one finished may be
about to open the file. The invariant adds that a change under way which no other overlapped is the only one (`Alone`) and
finds the store as its earlier steps left it (`Undisturbed`); that while a set is promised the changes under way are
sets still before the check that refuses them (`PromiseHolds`); that at most one write of a local manager that is not root is
under way, into an empty file (`OneWriter`); and that Vault and AWS keep no name without a value (`WholeValues`). `NeverReplaced`
follows from the mode 0440 of the file: a second set that passed the check cannot open what the first has created,
unless root runs it.

## 6. What the models found

A finding, checked by a run that expects a violation:

* `runner_panic`: `Reset` closes `stopLoopCh` without looking whether it is closed; after a Reset that failed or was
  aborted, the next one panics (`block_indexer_runner.go:111`).

Behaviours that the models have and the properties allow for, good to know for whoever changes this code:

* an output that is created and spent in one block stays on offer when outputs are filtered
  (`block_indexer.go:181`; the exception of `StaleUtxosOnlyFromOwnBlock`);
* an indexer that checks inputs only and does not keep all outputs never records anything: it knows an input by the
  output it has stored, and it stores none (`block_indexer.go:50` admits that configuration; `OutputsFound` of the theorems excludes it);
* a Close between the check of `closeCh` and the lock leaves a new connection open (`block_syncer.go:111`);
* the loop of the gouroboros provider enters its `select` with a nil channel and learns of no later failure; and
  `acquire` may find no connection and panic (`txprovider_gouroboros.go:274`, `:263`);
* with one condition an error of `GetUTXOsForAmounts` means that no inputs would have done (`Impossible` of
  `InputSelection`); with two it does not, because the replacement looks at one token and may drop the output that holds most of the other;
* `IsRetryableError` looks for "status code 429" and never matches the "status code: 429" of Cats; and Cats takes
  any body without an `error` for success;
* a human-readable part that does not fit the header of an address is accepted, and an address of a network other
  than 0 and 1 prints as a text without prefix that nobody can read;
* bytes with the tag and the checksum of a Byron address pass for one whatever is inside: `GetInfo` then gives an unsupported type and no
  parts, or panics on a hash of less than 28 bytes (`address_types.go:361`, `:377`; the exception of `BytesKeepTheirMeaning`);
* the loop that meets a second fatal error while the first is unread waits in its send for ever: it outlives Close, and until Close a Reset waits for
  it (`block_indexer_runner.go:194`, `:113`); `main.go` reads no errors of the runner (the exceptions of `CloseEndsAll`
  and `ResetReturns`). An error handler of the syncer waits in the same way at `block_syncer.go:247` (the exception of `CloseStopsAll`, which holds again and again after Close, so that one who waits in vain is in front of a full channel to the end);
* `AddInputsWithScripts` leaves out inputs that have no script, and `slices.Contains` would panic on a policy script that is not a pointer;
* a GCP or local set that stops half-way leaves a name that needs a removal, and two local sets at once may end in
  a nil `FileInfo` (`common.go:63`).

## 7. What is only model-checked, and what is not modelled

Only TLC checks liveness (`CatchesUp`, `ResetReturns`, `CloseEndsAll`, `NeverSilentlyDown`, `CloseStopsAll`,
`LoopEnds`, `SubmissionReturns`), because fairness and `ENABLED` are outside the prover's reach; and `NeverAnotherPayee`,
which is about the distance of the code: a fact about its generators that TLC establishes by trying every single mistake in the
texts of the run, and that an inductive argument does not reach.

Not modelled, and why:

* parsing of ledger types (`indexer/gouroboros/utils.go`, `tx_info_parser.go`): conversions without state; that a
  phase-2 invalid transaction is taken for a valid one is listed as a hazard;
* keys, signatures, key files and protocol parameters: cryptography and conversions;
* cardano-cli, bbolt, cbor, base58, the node and the remote services: external; modelled from how they are used;
* queries of the data providers other than gouroboros: one request and a conversion of its answer (Blockfrost asks for
  the first page of outputs only, `txprovider_blockfrost.go:82`);
* the callbacks of a connection that is being replaced (`block_syncer.go:196`): the pipeline and its proofs rest on
  one connection;
* time: delays are steps, so that the time of the acquired point (`txprovider_gouroboros.go:255`) is a choice, and the time to live is left out;
* `GetConfirmedBlocksFrom` and `DeleteAllTxOutputsPhysically`, which the indexer does not call;
* requests of a secrets manager that take effect only after their caller has given up; a request of the model takes effect before its answer is heard or lost;
* negative arguments of `SetCount` and `ClearFrom` of the ring buffer, which the indexer never passes;
* configuration, `Setup` and paths of the secrets managers; logger and lint rules.
