----------------------------- MODULE MCTxSender -----------------------------
(* Small values of the constants of TxSender. *)
EXTENDS TxSender, SequencesExt

CONSTANT tok

Holding(a, n) == [t \in Token |-> IF t = Ada THEN a ELSE n]

WalletOutputs == {Holding(2, 0), Holding(3, 1), Holding(6, 2)}

MCWallets == BoundedSeq(WalletOutputs, 3)

BridgingCalls ==
  [op : {"createBridgingTx", "calculateFee", "getBridgingFee"},
   receivers : BoundedSeq({OnlyAda(1), OnlyAda(2)}, 2), bridgingFee : {0, 1},
   known : BOOLEAN, validAddress : BOOLEAN]

GenericCalls ==
  [op : {"createTxGeneric"},
   receivers : BoundedSeq({Holding(0, 0), Holding(2, 0), Holding(1, 1), Holding(4, 2)}, 2),
   bridgingFee : {0}, known : BOOLEAN, validAddress : BOOLEAN]

MCCalls == BridgingCalls \cup GenericCalls

\* The theorems about TxSender speak of this instance.
ASSUME FitsAssumption == SumsFit
=============================================================================
