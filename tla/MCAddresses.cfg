\* Keys of three bytes leave the same odd bits as keys of 28 (28 = 3 mod 5), and a word
\* of 8 bits the same as one of 64 (in groups of seven).  The machine stops when the
\* text has been read.
SPECIFICATION AddressSpec
CONSTANTS
  MaxBechStrLength = 256
  KeyHashSize = 3
  Word = 256
  Infos <- MCInfos
  Raws <- MCRaws
  MistypedInfos <- MCMistyped
  Keyboard <- MCKeyboard
  ByronAddresses <- MCByron
INVARIANTS
  RoundTrip
  BytesKeepTheirMeaning
  NeverAnotherPayee
CHECK_DEADLOCK FALSE
