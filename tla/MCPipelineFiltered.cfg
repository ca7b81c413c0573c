CONSTANTS
  a1 = a1
  a2 = a2
  a3 = a3
  a4 = a4
  b2 = b2
  b3 = b3
  b4 = b4
  b5 = b5
  t0 = t0
  t1 = t1
  t2 = t2
  t3 = t3
  t4 = t4
  alice = alice
  bob = bob
  carol = carol
  Genesis = genesis
  NoPoint = noPoint
  NoAddress = noAddress
  NoBlock = noBlock
  NotRead = notRead
  Block <- MCBlock
  Parent <- MCParent
  Slot <- MCSlot
  PathTo <- MCPathTo
  Tx <- MCTx
  TxsOf <- MCTxsOf
  Ins <- MCIns
  Outs <- MCOuts
  Address <- MCAddress
  ConfirmationBlockCount = 2
  StartingBlockPoint = noPoint
  AddressesOfInterest = {alice}
  NewAddresses = {bob}
  AddressCheckInputs = TRUE
  AddressCheckOutputs = TRUE
  KeepAllTxOutputsInDB = FALSE
  KeepAllTxsHashesInBlock = TRUE
  SoftDeleteUtxo = FALSE
  QueueChannelSize = 2
SPECIFICATION Spec
INVARIANTS
  ViewIsNodeChain
  FatalMeansOrphaned
  ConfirmedBlocksAreAChain
  UtxosComplete
  StaleUtxosOnlyFromOwnBlock
  NoTxLost
PROPERTIES
  ConfirmsOneDeepBlock
  ImplementsConfirmedChain
