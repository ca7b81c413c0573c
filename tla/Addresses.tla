----------------------------- MODULE Addresses -----------------------------
(***************************************************************************)
(* wallet/address.go, address_types.go and network_type.go: Shelley        *)
(* addresses as values, as bytes and as text.  The machine follows one     *)
(* address: it is built from its parts or from bytes, printed (here or by  *)
(* another program), perhaps mistyped once on its way, and read again.     *)
(* What cbor, crc32 and base58 make of Byron addresses is a table; what     *)
(* the code does with it is here.                                          *)
(***************************************************************************)
EXTENDS Bech32

CONSTANTS KeyHashSize,     \* 28 in the code
          Word,            \* one above the largest uint64
          Infos,           \* what addresses are built from
          Raws,            \* the bytes that are offered as an address
          MistypedInfos,   \* the addresses whose text may be mistyped
          Keyboard,        \* the characters a mistake puts in
          ByronAddresses   \* records [raw, text, content]: bytes with the tag and the
                           \* checksum of a Byron address, and what is in them

Byte == 0..255
Payload == [payload : [1..KeyHashSize -> Byte], isScript : BOOLEAN]
StakePointer == [slot : 0..Word - 1, txIndex : 0..Word - 1, certIndex : 0..Word - 1]

-----------------------------------------------------------------------------
(* Byron addresses *)

\* What is in the bytes may be no cbor of an address; if it is, the hash may have any
\* length, and so may the attribute that names the network.
ByronContent == [decodes : BOOLEAN, hashed : Seq(Byte), network : Seq(Byte)]

TestNetProtocolMagic == <<65, 112, 203, 23>>

ByronNetwork(network) ==
  IF \/ network = <<1>>
     \/ Len(network) = 5 /\ Tail(network) = TestNetProtocolMagic THEN 0 ELSE 1

HasParts(b) == b.content.decodes /\ Len(b.content.hashed) >= KeyHashSize

\* A hash that is too short for an array of KeyHashSize bytes makes the conversion
\* panic; the end of one that is too long is left out.
ByronInfo(b) ==
  IF ~b.content.decodes THEN [type |-> "Unsupported", network |-> 0]
  ELSE IF ~HasParts(b) THEN [type |-> "Panicked"]
  ELSE [type |-> "Byron", network |-> ByronNetwork(b.content.network), extra |-> b.raw,
        payment |-> [payload |-> SubSeq(b.content.hashed, 1, KeyHashSize), isScript |-> FALSE]]

-----------------------------------------------------------------------------
\* The parts of an address; a network is four bits of the header.
CardanoAddressInfo ==
  [type : {"Base"}, network : 0..15, payment : Payload, stake : Payload, extra : Seq(Byte)]
    \cup [type : {"Pointer"}, network : 0..15, payment : Payload, stakePointer : StakePointer,
          extra : Seq(Byte)]
    \cup [type : {"Enterprise"}, network : 0..15, payment : Payload, extra : Seq(Byte)]
    \cup [type : {"Reward"}, network : 0..15, stake : Payload, extra : Seq(Byte)]
    \cup {ByronInfo(b) : b \in {c \in ByronAddresses : HasParts(c)}}

\* The types that have a parser.
Types == {"Base", "Pointer", "Enterprise", "Reward", "Byron"}

GetAddressTypeFromHeader(header) ==
  LET nibble == header \div 16
  IN  CASE nibble = 8 -> "Byron"
        [] nibble \in 0..3 -> "Base"
        [] nibble \in {4, 5} -> "Pointer"
        [] nibble \in {6, 7} -> "Enterprise"
        [] nibble \in {14, 15} -> "Reward"
        [] OTHER -> "Unsupported"

Addr == <<97, 100, 100, 114>>
Stake == <<115, 116, 97, 107, 101>>
Test == <<95, 116, 101, 115, 116>>

\* Mutant of IsAddressWithValidPrefix: reward addresses are forgotten.
IsPaymentPrefix(chars) == IsPrefix(Addr, chars)

IsAddressWithValidPrefix(chars) == IsPrefix(Addr, chars) \/ IsPrefix(Stake, chars)

ASSUME AddressAssumption ==
  /\ KeyHashSize \in Nat /\ Word \in Nat \ {0} /\ MaxBechStrLength \in Nat
  /\ Infos \subseteq CardanoAddressInfo /\ Raws \subseteq Seq(Byte)

\* Bytes and text of a Byron address name each other; the bytes begin with a cbor
\* array, hence the text not with the 1 that base58 has for a zero.  Of what is in
\* the bytes nothing is assumed: neither the checksum nor the tag tell of it.
ASSUME ByronAssumption ==
  /\ \A b \in ByronAddresses :
       /\ b.raw \in Seq(Byte) /\ Len(b.raw) > 0 /\ GetAddressTypeFromHeader(b.raw[1]) = "Byron"
       /\ b.text \in Seq(Byte) /\ Len(b.text) > 0 /\ b.text[1] # Separator
       /\ b.content \in ByronContent
  /\ \A b, c \in ByronAddresses : b.raw = c.raw \/ b.text = c.text => b = c

VARIABLES info,    \* the parts the address was built from
          made,    \* the address built
          text,    \* its text on the way to a reader
          edited,  \* the text has been mistyped
          read     \* what the reader made of it

addressVars == <<info, made, text, edited, read>>

-----------------------------------------------------------------------------
(* Types, networks and prefixes *)

ToByte(b) == IF b THEN 1 ELSE 0

ForNetwork(network, prefix) ==
  CASE network = 1 -> prefix [] network = 0 -> prefix \o Test [] OTHER -> <<>>

GetPrefix(network) == ForNetwork(network, Addr)
GetStakePrefix(network) == ForNetwork(network, Stake)

-----------------------------------------------------------------------------
(* Stake pointers: three numbers in groups of seven bits *)

Groups[num \in 0..Word - 1] ==
  IF num < 128 THEN <<num>> ELSE Append(Groups[num \div 128], num % 128)

\* Every group but the last is marked.  Mutant: the last one is.
variableEncodeLow(num) ==
  [k \in DOMAIN Groups[num] |-> Groups[num][k] + (IF k > 1 THEN 128 ELSE 0)]

variableEncode(num) ==
  [k \in DOMAIN Groups[num] |-> Groups[num][k] + (IF k < Len(Groups[num]) THEN 128 ELSE 0)]

Ends(raw) == {k \in DOMAIN raw : raw[k] < 128}

\* The number in bytes from..to; bits above the word are shifted out.
readOne(raw, from, to) ==
  LET result[k \in from - 1..Len(raw)] ==
        IF k < from THEN 0 ELSE (result[k - 1] * 128 + (raw[k] % 128)) % Word
  IN  result[to]

\* The three numbers take up all the bytes.
HasStakePointer(raw) ==
  \E first, second \in DOMAIN raw : /\ first < second /\ second < Len(raw)
                                   /\ Ends(raw) = {first, second, Len(raw)}

getStakePointer(raw) ==
  LET first == CHOOSE e \in Ends(raw) : \A o \in Ends(raw) : e <= o
      second == CHOOSE e \in Ends(raw) : e # first /\ e # Len(raw)
  IN  [slot |-> readOne(raw, 1, first),
       txIndex |-> readOne(raw, first + 1, second),
       certIndex |-> readOne(raw, second + 1, Len(raw))]

-----------------------------------------------------------------------------
(* The parsers *)

ByronOf(raw) == CHOOSE b \in ByronAddresses : b.raw = raw

Part(raw, n) == SubSeq(raw, 2 + (n - 1) * KeyHashSize, 1 + n * KeyHashSize)
After(raw, n) == SubSeq(raw, 2 + n * KeyHashSize, Len(raw))

IsValid(type, raw) ==
  CASE type = "Base" -> Len(raw) >= 1 + KeyHashSize * 2
    [] type = "Pointer" -> Len(raw) >= KeyHashSize + 4 /\ HasStakePointer(After(raw, 1))
    [] type \in {"Enterprise", "Reward"} -> Len(raw) = KeyHashSize + 1
    [] type = "Byron" -> \E b \in ByronAddresses : b.raw = raw

AddressToString(type, raw) ==
  LET network == raw[1] % 16
  IN  IF type = "Byron" THEN ByronOf(raw).text
      ELSE EncodeFromBase256(IF type = "Reward" THEN GetStakePrefix(network)
                                                ELSE GetPrefix(network), raw).text

ToCardanoAddressInfo(type, raw) ==
  LET header == raw[1] \div 16
      Hash(n, bit) == [payload |-> Part(raw, n), isScript |-> (header \div bit) % 2 = 1]
      network == raw[1] % 16
  IN  CASE type = "Base" ->
             [type |-> type, network |-> network, payment |-> Hash(1, 1), stake |-> Hash(2, 2),
              extra |-> After(raw, 2)]
        [] type = "Pointer" ->
             [type |-> type, network |-> network, payment |-> Hash(1, 1),
              stakePointer |-> getStakePointer(After(raw, 1)), extra |-> <<>>]
        [] type = "Enterprise" ->
             [type |-> type, network |-> network, payment |-> Hash(1, 1), extra |-> After(raw, 1)]
        [] type = "Reward" ->
             [type |-> type, network |-> network, stake |-> Hash(1, 1), extra |-> After(raw, 1)]
        [] type = "Byron" -> ByronInfo(ByronOf(raw))

FromCardanoAddressInfo(i) ==
  LET network == i.network % 16
      Script(payload) == ToByte(payload.isScript)
  IN  CASE i.type = "Base" ->
             <<16 * Script(i.payment) + 32 * Script(i.stake) + network>>
               \o i.payment.payload \o i.stake.payload \o i.extra
        [] i.type = "Pointer" ->
             <<64 + 16 * Script(i.payment) + network>> \o i.payment.payload
               \o variableEncode(i.stakePointer.slot) \o variableEncode(i.stakePointer.txIndex)
               \o variableEncode(i.stakePointer.certIndex) \o i.extra
        [] i.type = "Enterprise" ->
             <<96 + 16 * Script(i.payment) + network>> \o i.payment.payload \o i.extra
        [] i.type = "Reward" ->
             <<224 + 16 * Script(i.stake) + network>> \o i.stake.payload \o i.extra
        [] i.type = "Byron" -> i.extra

-----------------------------------------------------------------------------
(* CardanoAddress *)

NoAddress == [ok |-> FALSE]

NewCardanoAddress(raw) ==
  IF raw = <<>> THEN NoAddress
  ELSE LET type == GetAddressTypeFromHeader(raw[1])
       IN  IF type = "Unsupported" THEN NoAddress
           ELSE IF ~IsValid(type, raw) THEN NoAddress
           ELSE [ok |-> TRUE, type |-> type, raw |-> raw, cachedStr |-> <<>>]

Base58Decode(chars) ==
  IF \E b \in ByronAddresses : b.text = chars
    THEN (CHOOSE b \in ByronAddresses : b.text = chars).raw ELSE <<>>

\* The human-readable part is not compared with the header.
NewCardanoAddressFromString(chars) ==
  LET byron == NewCardanoAddress(Base58Decode(chars))
      decoded == DecodeToBase256(chars)
      address == NewCardanoAddress(decoded.data)
  IN  IF ~IsAddressWithValidPrefix(chars)
        THEN IF ~byron.ok THEN NoAddress
             ELSE IF byron.type # "Byron" THEN NoAddress ELSE byron
      ELSE IF ~decoded.ok THEN NoAddress
      ELSE IF ~address.ok THEN NoAddress
      ELSE [address EXCEPT !.cachedStr = chars]

GetInfo(address) == ToCardanoAddressInfo(address.type, address.raw)

String(address) ==
  IF address.cachedStr = <<>> THEN AddressToString(address.type, address.raw) ELSE address.cachedStr

ToCardanoAddress(i) ==
  IF i.type \in Types THEN NewCardanoAddress(FromCardanoAddressInfo(i)) ELSE NoAddress

\* NewBaseAddress, NewEnterpriseAddress, NewRewardAddress, and the same three of a
\* policy script.
BaseInfo(network, payment, stake, isScript) ==
  [type |-> "Base", network |-> network, extra |-> <<>>,
   payment |-> [payload |-> payment, isScript |-> isScript],
   stake |-> [payload |-> stake, isScript |-> isScript]]

EnterpriseInfo(network, payment, isScript) ==
  [type |-> "Enterprise", network |-> network, extra |-> <<>>,
   payment |-> [payload |-> payment, isScript |-> isScript]]

RewardInfo(network, stake, isScript) ==
  [type |-> "Reward", network |-> network, extra |-> <<>>,
   stake |-> [payload |-> stake, isScript |-> isScript]]

\* No text is longer than a reader accepts: a prefix of at most ten letters, the
\* separator, the payload and the checksum.
TextsFit ==
  \A raw \in Raws \cup {FromCardanoAddressInfo(i) : i \in Infos} :
    17 + (8 * Len(raw) + 4) \div 5 <= MaxBechStrLength

\* No Byron address looks like one that is read as bech32.
ByronTextsStandOut == \A b \in ByronAddresses : ~IsAddressWithValidPrefix(b.text)

-----------------------------------------------------------------------------
(* One address on its way *)

NoInfo == [type |-> "None"]
Rejected == [type |-> "Rejected"]
Unread == [ok |-> FALSE, unread |-> TRUE]

AddressInit == info = NoInfo /\ made = NoAddress /\ text = <<>> /\ edited = FALSE /\ read = Unread

Build(i) ==
  /\ info = NoInfo
  /\ info' = i /\ made' = ToCardanoAddress(i)
  /\ UNCHANGED <<text, edited, read>>

Parse(raw) ==
  /\ info = NoInfo
  /\ made' = NewCardanoAddress(raw)
  /\ info' = IF made'.ok THEN GetInfo(made') ELSE Rejected
  /\ UNCHANGED <<text, edited, read>>

Show ==
  /\ made.ok /\ text = <<>>
  /\ text' = String(made)
  /\ UNCHANGED <<info, made, edited, read>>

\* Another program prints the same bytes under a prefix of its choice.
ShowForeign(hrp) ==
  /\ made.ok /\ text = <<>>
  /\ text' = EncodeFromBase256(hrp, made.raw).text
  /\ UNCHANGED <<info, made, edited, read>>

Flip(c) == IF c \in 97..122 THEN c - 32 ELSE c

Mistypings(chars) ==
  LET here == DOMAIN chars
      Put(k, c) == [chars EXCEPT ![k] = c]
  IN  ({Put(k, c) : k \in here, c \in Keyboard}
        \cup {Put(k, Flip(chars[k])) : k \in here}
        \cup {RemoveAt(chars, k) : k \in here}
        \cup {InsertAt(chars, k, c) : k \in 1..Len(chars) + 1, c \in Keyboard}
        \cup {[chars EXCEPT ![k] = chars[k + 1], ![k + 1] = chars[k]] : k \in 1..Len(chars) - 1}
        \cup {[k \in here |-> Flip(chars[k])]}) \ {chars}

Mistype ==
  /\ text # <<>> /\ ~edited /\ read = Unread /\ info \in MistypedInfos
  /\ text' \in Mistypings(text)
  /\ edited' = TRUE
  /\ UNCHANGED <<info, made, read>>

Read ==
  /\ text # <<>> /\ read = Unread
  /\ read' = NewCardanoAddressFromString(text)
  /\ UNCHANGED <<info, made, text, edited>>

AddressNext ==
  \/ \E i \in Infos : Build(i)
  \/ \E raw \in Raws : Parse(raw)
  \/ Show
  \/ \E hrp \in {Addr, Addr \o Test, Stake, Stake \o Test} : ShowForeign(hrp)
  \/ Mistype
  \/ Read

AddressSpec == AddressInit /\ [][AddressNext]_addressVars

-----------------------------------------------------------------------------
(* Properties *)

\* The parts an address is built from, the parts of its bytes, and the parts that
\* are read back from its text are the same, for the two networks that have a
\* prefix; an address of another network prints as a text that nobody can read.
\* The text that is read is printed again letter by letter.  Bytes of a Byron address
\* come back from their text even when there are no parts in them.
RoundTrip ==
  made.ok =>
    /\ GetInfo(made) = info
    /\ read # Unread /\ ~edited =>
         IF made.type = "Byron" \/ info.network \in {0, 1} \/ IsAddressWithValidPrefix(text)
           THEN read.ok /\ read.raw = made.raw /\ GetInfo(read) = info /\ String(read) = text
           ELSE ~read.ok

\* Bytes that pass for an address can be built again from their parts, with the same
\* meaning and as the same bytes: only a stake pointer may be written with more
\* groups, or with more bits, than its numbers have.  The one exception are Byron
\* bytes with the right tag and checksum but no parts in them, which pass as well
\* and of which nothing can be built.
BytesKeepTheirMeaning ==
  made.ok =>
    LET again == ToCardanoAddress(GetInfo(made))
    IN  /\ again.ok <=> (made.type = "Byron" => HasParts(ByronOf(made.raw)))
        /\ again.ok =>
             /\ GetInfo(again) = GetInfo(made)
             /\ again.raw # made.raw =>
                  made.type = "Pointer" /\ Len(again.raw) <= Len(made.raw)

\* A text with one mistake (a letter changed, left out, put in, exchanged with its
\* neighbour, or in the other case) is turned away, or it is read as an address with
\* the same header and the same keys: the money goes to nobody else.
NeverAnotherPayee ==
  edited /\ read.ok =>
    /\ IsPrefix(made.raw, read.raw)
    /\ Len(read.raw) > Len(made.raw) => read.type = "Base"
=============================================================================
