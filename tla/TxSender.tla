------------------------------ MODULE TxSender ------------------------------
(***************************************************************************)
(* One call of sendtx.TxSender at a time: CreateBridgingTx,                *)
(* CalculateBridgingTxFee, GetBridgingFee or CreateTxGeneric, step by step *)
(* between its calls of the provider and of the cardano-cli binary, each   *)
(* of which may fail.  The selection of inputs is the contract             *)
(* InputSelection, which the loop of GetUTXOsForAmounts implements.        *)
(*                                                                         *)
(* Values are functions from tokens to amounts; 0 stands for a token that  *)
(* is not there.  A list of outputs is a list of values: addresses matter  *)
(* only in that the change comes last.                                     *)
(***************************************************************************)
EXTENDS Sequences, Integers, FiniteSetsExt

CONSTANTS Token, Ada,
          Wallets,         \* lists of unspent outputs that GetUtxos may return
          Calls,           \* what the client may ask for
          Fees,            \* fees that CalculateFee may return
          Word,            \* 2^64 in the code
          MaxInputsPerTx, MinUtxoValue, MinBridgingFeeAmount, PotentialFee,
          MinAmountToBridge,
          BaseMinUtxo,     \* minimum of ada in an output without tokens, and
          TokenMinUtxo     \* for each token, of CalculateMinUtxo

Amount == 0 .. Word - 1
Value == [Token -> Amount]

ASSUME TxSenderAssumption ==
  /\ Ada \in Token /\ IsFiniteSet(Token)
  /\ Word \in Nat \ {0}
  /\ MaxInputsPerTx \in Nat \ {0}
  /\ {MinUtxoValue, MinBridgingFeeAmount, PotentialFee, BaseMinUtxo, TokenMinUtxo} \subseteq Nat
  /\ BaseMinUtxo > 0
  /\ MinAmountToBridge >= MinUtxoValue
  /\ Fees \subseteq Amount
  /\ Wallets \subseteq Seq(Value)
  /\ \A c \in Calls : c.receivers \in Seq(Value) /\ c.bridgingFee \in Amount

VARIABLES call,         \* the request of the client
          pc,
          builder,      \* the directory of the TxBuilder: "none", "open" or "disposed"
          receivers,    \* outputs to pay
          metadata,
          wallet,       \* what GetUtxos returned
          selection,    \* the request to the selection, over the transformed wallet
          answer,       \* and its answer
          outcome

vars == <<call, pc, builder, receivers, metadata, wallet, selection, answer, outcome>>

None == [kind |-> "none"]

Sel == INSTANCE InputSelection WITH
         request <- selection, MaxUtxos <- 0, Amounts <- {0}, Wanted <- {0},
         MaxInputs <- {MaxInputsPerTx}, AtLeast <- {1}

-----------------------------------------------------------------------------
(* Values *)

OnlyAda(amount) == [t \in Token |-> IF t = Ada THEN amount ELSE 0]

SumOfValues(list) ==
  [t \in Token |-> MapThenSumSet(LAMBDA k : list[k][t], DOMAIN list) % Word]

Tokens(value) == {t \in Token \ {Ada} : value[t] > 0}

\* The library of the ledger asks for more ada for every token.
MinRequiredUtxo(value) == BaseMinUtxo + TokenMinUtxo * Cardinality(Tokens(value))

SubtractSumMaps(a, b) == [t \in Token |-> IF a[t] > b[t] THEN a[t] - b[t] ELSE 0]

AdjustLovelaceOutput(value) ==
  LET needed == IF Tokens(value) = {} THEN {} ELSE {MinRequiredUtxo(value)} IN
  [value EXCEPT ![Ada] = Max({value[Ada], MinUtxoValue} \cup needed)]

Adjusted(list) == [k \in DOMAIN list |-> AdjustLovelaceOutput(list[k])]

-----------------------------------------------------------------------------
(* The call up to its outputs *)

Init ==
  /\ call \in Calls
  /\ pc = "start"
  /\ builder = "none"
  /\ receivers = << >>
  /\ metadata = None
  /\ wallet = << >>
  /\ selection = None
  /\ answer = Sel!Pending
  /\ outcome = None

Bridging == call.op # "createTxGeneric"

\* An error return; the deferred Dispose runs if it was reached.
Fail(why, disposed) ==
  /\ pc' = "done"
  /\ outcome' = [kind |-> "error", why |-> why]
  /\ builder' = IF disposed /\ builder = "open" THEN "disposed" ELSE builder
  /\ UNCHANGED <<call, receivers, metadata, wallet, selection, answer>>

\* Only GetBridgingFee does not look at the address.
Accepted == call.known /\ (call.validAddress \/ call.op = "getBridgingFee")

BelowMinFee == Bridging /\ call.bridgingFee < MinBridgingFeeAmount

\* CreateTxGeneric has made its builder before it looks at the address.
Reject ==
  /\ pc = "start"
  /\ ~Accepted \/ BelowMinFee
  /\ Fail("rejected", TRUE)

\* The directory cannot be made, or cardano-cli cannot tell its era after
\* the directory was made.
NewTxBuilderFails ==
  /\ pc = "start"
  /\ IF Bridging THEN Accepted /\ ~BelowMinFee ELSE call.known
  /\ pc' = "done"
  /\ outcome' = [kind |-> "error", why |-> "builder"]
  /\ builder' \in {"none", "open"}
  /\ UNCHANGED <<call, receivers, metadata, wallet, selection, answer>>

Begin ==
  /\ pc = "start"
  /\ Accepted
  /\ ~BelowMinFee
  /\ builder' = "open"
  /\ pc' = "params"
  /\ UNCHANGED <<call, receivers, metadata, wallet, selection, answer, outcome>>

\* prepareBridgingTx returns without a builder that its caller could dispose.
ParamsFail ==
  /\ pc = "params"
  /\ Fail("params", ~Bridging)

\* What the receivers get in all, and what the multisig address needs.
OutputLovelaceBase == SumOfValues(call.receivers)[Ada]
BeforeAdditionalCharges == AdjustLovelaceOutput(OnlyAda(OutputLovelaceBase))[Ada]
OutputLovelace == (BeforeAdditionalCharges + call.bridgingFee) % Word

\* Mutant of BridgingFee: what is added to the output is not in the metadata.
BridgingFeeAsGiven == call.bridgingFee

BridgingFee ==
  (call.bridgingFee + (BeforeAdditionalCharges - OutputLovelaceBase)) % Word

GetBridgingFee ==
  /\ pc = "params"
  /\ call.op = "getBridgingFee"
  /\ pc' = "done"
  /\ builder' = "disposed"
  /\ outcome' = [kind |-> "bridgingFee", fee |-> BridgingFee]
  /\ UNCHANGED <<call, receivers, metadata, wallet, selection, answer>>

PreparesBridging == pc = "params" /\ call.op \in {"createBridgingTx", "calculateFee"}

CreateMetadataFails ==
  /\ PreparesBridging
  /\ \E k \in DOMAIN call.receivers : call.receivers[k][Ada] < MinAmountToBridge
  /\ Fail("metadata", TRUE)

CreateMetadata ==
  /\ PreparesBridging
  /\ \A k \in DOMAIN call.receivers : call.receivers[k][Ada] >= MinAmountToBridge
  /\ metadata' = [kind |-> "bridge", bridgingFee |-> BridgingFee,
                  amounts |-> [k \in DOMAIN call.receivers |-> call.receivers[k][Ada]]]
  /\ receivers' = <<OnlyAda(OutputLovelace)>>
  /\ pc' = "utxos"
  /\ UNCHANGED <<call, builder, wallet, selection, answer, outcome>>

AdjustReceivers ==
  /\ pc = "params"
  /\ call.op = "createTxGeneric"
  /\ receivers' = Adjusted(call.receivers)
  /\ pc' = "utxos"
  /\ UNCHANGED <<call, builder, metadata, wallet, selection, answer, outcome>>

-----------------------------------------------------------------------------
(* populateTxBuilder *)

Paid == SumOfValues(receivers)

\* Mutant of ChangeMinUtxo: for an output without tokens.
ChangeMinUtxoNoTokens(utxos) == Max({MinUtxoValue, BaseMinUtxo})

\* The change is reckoned with every token of the wallet.
ChangeMinUtxo(utxos) ==
  Max({MinUtxoValue, MinRequiredUtxo(SubtractSumMaps(SumOfValues(utxos), Paid))})

\* Mutant of Conditions: nothing is reserved for the fee.
ConditionsNoFee(utxos) == [Paid EXCEPT ![Ada] = (@ + ChangeMinUtxo(utxos)) % Word]

Conditions(utxos) ==
  [Paid EXCEPT ![Ada] = (@ + PotentialFee + ChangeMinUtxo(utxos)) % Word]

\* A transformer chooses among the outputs; without one all of them are kept.
Kept(utxos) ==
  {kept \in UNION {[1..n -> DOMAIN utxos] : n \in 0..Len(utxos)} :
     \A j, k \in DOMAIN kept : j < k => kept[j] < kept[k]}

TransformUtxos(utxos, kept) == [k \in DOMAIN kept |-> utxos[kept[k]]]

GetUtxos(utxos) ==
  /\ pc = "utxos"
  /\ wallet' = utxos
  /\ \E kept \in Kept(utxos) :
       selection' = [amount |-> TransformUtxos(utxos, kept),
                     conditions |-> Conditions(utxos),
                     maxInputs |-> MaxInputsPerTx,
                     tryAtLeast |-> 1]
  /\ pc' = "select"
  /\ UNCHANGED <<call, builder, receivers, metadata, answer, outcome>>

\* The provider, or CalculateMinUtxo for the change.
GetUtxosFails ==
  /\ pc = "utxos"
  /\ Fail("utxos", TRUE)

GetUTXOsForAmounts ==
  /\ pc = "select"
  /\ Sel!Next
  /\ pc' = "ttl"
  /\ UNCHANGED <<call, builder, receivers, metadata, wallet, outcome>>

NoInputs ==
  /\ pc = "ttl"
  /\ answer.kind # "selected"
  /\ Fail(answer.kind, TRUE)

PopulateTimeToLive ==
  /\ pc = "ttl"
  /\ answer.kind = "selected"
  /\ pc' = "fee"
  /\ UNCHANGED <<call, builder, receivers, metadata, wallet, selection, answer, outcome>>

GetTipFails ==
  /\ pc = "ttl"
  /\ answer.kind = "selected"
  /\ Fail("tip", TRUE)

-----------------------------------------------------------------------------
(* The fee and the change *)

Remaining == [t \in Token |-> (answer.sum[t] - Paid[t]) % Word]

ChangeLovelace == Remaining[Ada]

Change(fee) == (ChangeLovelace - fee) % Word

\* Mutant of Insufficient: the wrap-around goes unnoticed.
InsufficientNoOverflow(fee) == Change(fee) # 0 /\ Change(fee) < ChangeMinUtxo(wallet)

\* The subtraction went below zero, or what is left is too little to keep.
Insufficient(fee) ==
  LET change == Change(fee) IN
  /\ change # 0
  /\ change > ChangeLovelace \/ change < ChangeMinUtxo(wallet)

Outputs(fee) ==
  receivers \o
    (IF Change(fee) = 0 THEN << >> ELSE <<[Remaining EXCEPT ![Ada] = Change(fee)]>>)

calculateFee(fee) ==
  /\ pc = "fee"
  /\ call.op = "calculateFee"
  /\ pc' = "done"
  /\ builder' = "disposed"
  /\ outcome' = [kind |-> "fee", fee |-> fee]
  /\ UNCHANGED <<call, receivers, metadata, wallet, selection, answer>>

CreateTx(fee) ==
  /\ pc = "fee"
  /\ call.op # "calculateFee"
  /\ ~Insufficient(fee)
  /\ pc' = "done"
  /\ builder' = "disposed"
  /\ outcome' = [kind |-> "tx", fee |-> fee, inputs |-> answer.inputs, outputs |-> Outputs(fee)]
  /\ UNCHANGED <<call, receivers, metadata, wallet, selection, answer>>

InsufficientChange(fee) ==
  /\ pc = "fee"
  /\ call.op # "calculateFee"
  /\ Insufficient(fee)
  /\ pc' = "done"
  /\ builder' = "disposed"
  /\ outcome' = [kind |-> "insufficient", fee |-> fee]
  /\ UNCHANGED <<call, receivers, metadata, wallet, selection, answer>>

\* cardano-cli cannot calculate the fee or build the transaction, or, before
\* that, the minimum of ada of a receiver.
CliFails ==
  /\ \/ pc = "fee"
     \/ pc = "params" /\ call.op = "createTxGeneric"
  /\ Fail("cli", TRUE)

Next ==
  \/ Reject \/ NewTxBuilderFails \/ Begin \/ ParamsFail \/ GetBridgingFee
  \/ CreateMetadataFails \/ CreateMetadata \/ AdjustReceivers
  \/ GetUtxosFails \/ \E utxos \in Wallets : GetUtxos(utxos)
  \/ GetUTXOsForAmounts \/ NoInputs \/ PopulateTimeToLive \/ GetTipFails
  \/ CliFails
  \/ \E fee \in Fees : calculateFee(fee) \/ CreateTx(fee) \/ InsufficientChange(fee)

Spec == Init /\ [][Next]_vars

-----------------------------------------------------------------------------
(* Properties *)

Built == outcome.kind = "tx"

Total(list, t) == MapThenSumSet(LAMBDA k : list[k][t], DOMAIN list)

\* The most ada that an output needs.
MostMinUtxo == Max({MinUtxoValue, BaseMinUtxo + TokenMinUtxo * Cardinality(Token)})

\* What a wallet holds, and what a call pays with all that is added to it, fit
\* a word: of ada there is less than 2^56, of other tokens it is assumed.
SumsFit ==
  /\ \A t \in Token : /\ \A utxos \in Wallets : Total(utxos, t) < Word
                      /\ \A c \in Calls : Total(c.receivers, t) < Word
  /\ \A c \in Calls :
       LET fees == PotentialFee + MostMinUtxo IN
       /\ Total(Adjusted(c.receivers), Ada) + fees < Word
       /\ Total(c.receivers, Ada) + MinUtxoValue + c.bridgingFee + fees < Word

\* A transaction that is built consumes exactly what it pays: the ada of its
\* inputs is that of its outputs and the fee, for every fee that cardano-cli
\* calculates, and no token of an input is lost, unless the fee is more than
\* the PotentialFee that the conditions of the selection reserved.
ValueConserved ==
  Built =>
    /\ Sel!Holds(outcome.inputs, Ada) = Total(outcome.outputs, Ada) + outcome.fee
    /\ outcome.fee <= PotentialFee =>
         \A t \in Token \ {Ada} : Sel!Holds(outcome.inputs, t) = Total(outcome.outputs, t)

\* The conditions reserve enough: a fee up to PotentialFee never fails a call
\* whose inputs were found, whatever tokens the inputs bring along.
PotentialFeeSuffices == outcome.kind = "insufficient" => outcome.fee > PotentialFee

\* The change was reckoned with the tokens of the whole wallet before inputs
\* were chosen; whichever were chosen, every output of the transaction, the
\* change included, has the ada that its own tokens need.
OutputsHaveMinUtxo ==
  Built => \A k \in DOMAIN outcome.outputs :
    LET o == outcome.outputs[k] IN
    /\ o[Ada] >= MinUtxoValue
    /\ Tokens(o) # {} => o[Ada] >= MinRequiredUtxo(o)

\* The metadata tells the bridge what to pay out.  The output of a bridging
\* transaction holds just that and the fee that the metadata names, which is
\* no less than the minimal one, also when the output was raised to
\* MinUtxoValue.
MetadataIsPaid ==
  Built /\ Bridging =>
    /\ metadata.amounts = [k \in DOMAIN call.receivers |-> call.receivers[k][Ada]]
    /\ outcome.outputs[1][Ada] = Total(call.receivers, Ada) + metadata.bridgingFee
    /\ metadata.bridgingFee >= MinBridgingFeeAmount
=============================================================================
