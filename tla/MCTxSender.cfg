\* Wallets of up to three outputs and up to two receivers.
SPECIFICATION Spec
CONSTANTS
  tok = tok
  Ada = ada
  Token = {ada, tok}
  Wallets <- MCWallets
  Calls <- MCCalls
  Fees = {0, 1, 2, 3, 4, 7}
  Word = 64
  MaxInputsPerTx = 2
  MinUtxoValue = 2
  MinBridgingFeeAmount = 1
  PotentialFee = 2
  MinAmountToBridge = 2
  BaseMinUtxo = 1
  TokenMinUtxo = 2
INVARIANTS ValueConserved PotentialFeeSuffices OutputsHaveMinUtxo MetadataIsPaid
CHECK_DEADLOCK FALSE
