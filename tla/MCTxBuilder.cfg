\* Four calls of the builder: room for an operation that fails with some fields, another
\* setter and the operation again.  The machine stops when the bound is reached.
SPECIFICATION BuilderSpec
CONSTANTS
  Nil = Nil
  k1 = k1
  k2 = k2
  k3 = k3
  i1 = i1
  i2 = i2
  p1 = p1
  p2 = p2
  Key = {k1, k2, k3}
  Input = {i1, i2}
  OwnerOf <- MCOwnerOf
  Pointer = {p1, p2}
  Script <- MCScript
  Height <- MCHeight
  ScriptOf <- MCScriptOf
  Slice = {1, 2}
  MintedToken = token
  Certificate = certificate
  StakeKey = k3
  OutputsGiven <- MCOutputs
  MintsGiven <- MCMints
  WithdrawalsGiven <- MCWithdrawals
  SignersGiven <- MCSigners
  MaxSteps = 4
INVARIANTS
  ResultIsOfThisCall
  FeePaysForWitnesses
PROPERTIES
  OtherOutputsKeep
CHECK_DEADLOCK FALSE
