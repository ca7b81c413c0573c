\* Lists of up to four outputs with two tokens; Word is small enough for
\* sums to wrap around.
SPECIFICATION SelectionsSpec
CONSTANTS
  Ada = ada
  Token = {ada, tok}
  Amounts = {0, 1, 2}
  Wanted = {0, 1, 2, 3}
  MaxUtxos = 4
  MaxInputs = {1, 2, 3}
  AtLeast = {0, 2}
  Word = 5
INVARIANT ListKeepsAll
PROPERTY ImplementsInputSelection
CHECK_DEADLOCK FALSE
